---- MODULE Spec2Model ----
(***************************************************************************)
(* A model of the sift/voltar validator engine: the validator contract     *)
(* (base.py), the primitive validators (primitives.py) and the collection  *)
(* validators List, Dict, Tuple and Union (collections.py), with the       *)
(* synchronous path as pure operators and the asynchronous path as a       *)
(* process of the composite and its asyncio subtasks; and the builder      *)
(* methods and the Object algebra extend / exclude / omit (objects.py) as  *)
(* calls on validator instances that share containers until rebound.       *)
(***************************************************************************)
EXTENDS Integers, Sequences, FiniteSets, TLC

VARIABLES
    V,        \* the validator the call is made on
    pc,       \* position of the caller/composite: idle, create, await, done
    mode,     \* "sync" / "async" / "" : the entry point of the current call
    x,        \* the input of the current call
    outcome,  \* what the call delivered (value or failure); NoOutcome before
    log,      \* child validator invocations of the sync path, in order
    tasks,    \* async: the subtasks created so far, in creation order
    result,   \* async: the composite's working copy of the input
    cur,      \* async: index of the subtask the composite awaits next
    counter,  \* number of calls made to a default producer
    perm,     \* iteration order of the hash set of unvalidated keys (Dict)
    heap,     \* the validator instances that exist, and their dicts and sets
    last,     \* the last builder call: method, receiver, result, heap before it
    other,    \* a call made on V while validate_async is suspended: input, outcome
    report,   \* a ValidationError being assembled: its errors dict and issue list
    input     \* the caller's object that was passed as the input, as it is now

vars == <<V, pc, mode, x, outcome, log, tasks, result, cur, counter, perm, heap, last, other, report, input>>

(***************************************************************************)
(* Bounds of the model.                                                    *)
(***************************************************************************)
MaxItems == 2       \* longest list/tuple input
MaxKeys == 2        \* number of distinct keys, and most keys of a dict input
MaxCalls == 2       \* calls of a default producer before the model stops

(***************************************************************************)
(* Values.  A Python value is a tagged record; strings are sequences of    *)
(* characters so that len(), upper() and re.match are computed.            *)
(***************************************************************************)
None == [ty |-> "none"]
PyStr(s) == [ty |-> "str", s |-> s]
PyInt(n) == [ty |-> "int", n |-> n]
PyList(items) == [ty |-> "list", items |-> items]
PyTuple(items) == [ty |-> "tuple", items |-> items]
PyDict(keys, vals) == [ty |-> "dict", keys |-> keys, vals |-> vals]

IsNone(d) == d.ty = "none"

\* type(data).__name__
TypeName(d) ==
    CASE d.ty = "none" -> "NoneType"
      [] d.ty = "str" -> "str"
      [] d.ty = "int" -> "int"
      [] d.ty = "list" -> "list"
      [] d.ty = "tuple" -> "tuple"
      [] OTHER -> "dict"

\* str.upper() on one character of the model's alphabet
UpperChar(c) ==
    CASE c = "a" -> "A"
      [] c = "b" -> "B"
      [] c = "c" -> "C"
      [] OTHER -> c

\* str.upper()
Upper(s) == [i \in 1..Len(s) |-> UpperChar(s[i])]

(***************************************************************************)
(* Failures and outcomes.                                                  *)
(***************************************************************************)
Key(k) == [key |-> k]
Idx(i) == [idx |-> i]

Msg(m) == [m |-> m, got |-> ""]
MsgGot(m, d) == [m |-> m, got |-> TypeName(d)]

\* ValidationError(message, path): path or []
ValidationError(msg, path) == [ok |-> FALSE, msg |-> msg, path |-> path]
Ok(v) == [ok |-> TRUE, val |-> v]
NoOutcome == [ok |-> FALSE, msg |-> Msg("<none>"), path |-> <<>>]

\* no call was made while the current one was suspended
NoOther == [x |-> None, out |-> NoOutcome]

\* no ValidationError is being assembled
NoReport == [errors |-> <<>>, issues |-> <<>>]

\* an exception that is no ValidationError: `value in mapping` on an unhashable value
TypeError == [ok |-> FALSE, msg |-> Msg("unhashable type"), path |-> <<>>, exc |-> "TypeError"]
\* what `except ValidationError` catches
IsValidationError(e) == ~e.ok /\ "exc" \notin DOMAIN e

(***************************************************************************)
(* The validator contract: base.py, class Validator.                       *)
(***************************************************************************)
NoDefault == [t |-> "none"]
DefaultValue(v) == [t |-> "value", v |-> v]
DefaultProducer == [t |-> "producer"]
NoCustom == ""

\* Validator.__init__
Validator_init(kind) ==
    [kind |-> kind, optional |-> FALSE, nullable |-> FALSE,
     default |-> NoDefault, custom |-> NoCustom]

\* Validator.optional / nullable / default / error: clone, then set one attribute
optional(v) == [v EXCEPT !.optional = TRUE]
nullable(v) == [v EXCEPT !.nullable = TRUE]
default(v, d) == [v EXCEPT !.default = d]
\* Validator.default of voltar/validators/base.py: the clone is made optional too
default_optional(v, d) == [v EXCEPT !.default = d, !.optional = TRUE]
error(v, m) == [v EXCEPT !.custom = m]

\* Validator._is_nullable, overridden to True by Any and Null
is_nullable(v) == v.kind \in {"Any", "Null"}

\* Validator._get_error_message
get_error_message(v, msg) == IF v.custom # NoCustom THEN Msg(v.custom) ELSE msg

\* Validator._wrap_error
wrap_error(v, e) ==
    IF v.custom = NoCustom THEN e ELSE ValidationError(Msg(v.custom), e.path)

\* the value a default producer returns on its n-th call (test_validator_default)
Produced(n) == PyStr(<<"d", "-">> \o [i \in 1..n |-> "i"])

\* Validator._resolve_default
resolve_default(v, n) ==
    IF v.default.t = "producer" THEN Produced(n + 1) ELSE v.default.v

(***************************************************************************)
(* Primitive validators: primitives.py.  Of String's options the model     *)
(* keeps min() and uppercase(); the other options are more checks and      *)
(* transformations of the same shape.                                      *)
(***************************************************************************)
NoInt == -1     \* an Optional[int] attribute that is None

\* String.__init__
String_init == Validator_init("String") @@ [min_length |-> NoInt, uppercase |-> FALSE]
\* String.min
String_min(v, n) == [v EXCEPT !.min_length = n]
\* String.uppercase
String_uppercase(v) == [v EXCEPT !.uppercase = TRUE]
\* Number.__init__, Any.__init__, Null.__init__
Number_init == Validator_init("Number")
Any_init == Validator_init("Any")
Null_init == Validator_init("Null")

\* String._validate
String_validate(v, data, path) ==
    IF IsNone(data) /\ v.nullable THEN Ok(None)
    ELSE IF data.ty # "str" THEN
        ValidationError(get_error_message(v, MsgGot("Expected string", data)), path)
    ELSE LET res == IF v.uppercase THEN Upper(data.s) ELSE data.s IN
        IF v.min_length # NoInt /\ Len(res) < v.min_length THEN
            ValidationError(get_error_message(v, Msg("String too short")), path)
        ELSE Ok(PyStr(res))

\* Number._validate
Number_validate(v, data, path) ==
    IF IsNone(data) /\ v.nullable THEN Ok(None)
    ELSE IF data.ty # "int" THEN
        ValidationError(get_error_message(v, MsgGot("Expected number", data)), path)
    ELSE Ok(data)

\* Any._validate
Any_validate(v, data, path) == Ok(data)

\* Null._validate
Null_validate(v, data, path) ==
    IF ~IsNone(data) THEN
        ValidationError(get_error_message(v, MsgGot("Expected null/None", data)), path)
    ELSE Ok(None)

(***************************************************************************)
(* Collection validators: collections.py, and Object: objects.py.          *)
(* A dict key and a pattern are sequences of characters; a pattern rule    *)
(* "^lit" matches the keys that start with lit (re.match anchors at the    *)
(* start of the key).                                                      *)
(***************************************************************************)
Absent == [kind |-> "absent"]       \* an Optional[Validator] that is None
IsValidator(v) == v.kind # "absent"

\* List.__init__
List_init(item_validator) ==
    Validator_init("List") @@
    [item |-> item_validator, min_length |-> NoInt, max_length |-> NoInt,
     unique |-> FALSE, nonempty |-> FALSE]
\* List.min / max / unique / nonempty
List_min(v, n) == [v EXCEPT !.min_length = n]
List_max(v, n) == [v EXCEPT !.max_length = n]
List_unique(v) == [v EXCEPT !.unique = TRUE]
List_nonempty(v) == [v EXCEPT !.nonempty = TRUE]

AddTrue == [t |-> "true"]
AddFalse == [t |-> "false"]
AddValidator(v) == [t |-> "validator", v |-> v]

\* Dict.__init__: the keys of fields neither optional nor nullable are required
Dict_required_default(schema) ==
    {schema[i].key : i \in {j \in 1..Len(schema) :
                               ~schema[j].val.optional /\ ~schema[j].val.nullable}}

Dict_init(schema) ==
    Validator_init("Dict") @@
    [schema |-> schema, additional |-> AddTrue, patterns |-> <<>>,
     min_properties |-> NoInt, max_properties |-> NoInt,
     required |-> Dict_required_default(schema)]
\* Dict.additional_properties / pattern_property / required / min_/max_properties
Dict_additional_properties(v, a) == [v EXCEPT !.additional = a]
Dict_pattern_property(v, pat, val) ==
    IF \E i \in 1..Len(v.patterns) : v.patterns[i].pat = pat
    THEN [v EXCEPT !.patterns = [i \in 1..Len(v.patterns) |->
                IF v.patterns[i].pat = pat THEN [pat |-> pat, val |-> val]
                ELSE v.patterns[i]]]
    ELSE [v EXCEPT !.patterns = Append(v.patterns, [pat |-> pat, val |-> val])]
Dict_required(v, keys) == [v EXCEPT !.required = keys]
Dict_min_properties(v, n) == [v EXCEPT !.min_properties = n]
Dict_max_properties(v, n) == [v EXCEPT !.max_properties = n]

\* Tuple.__init__
Tuple_init(item_validators, rest_validator) ==
    Validator_init("Tuple") @@
    [items |-> item_validators, rest |-> rest_validator,
     min_length |-> Len(item_validators),
     max_length |-> IF IsValidator(rest_validator) THEN NoInt ELSE Len(item_validators)]

\* what a builder method raises when it refuses the call: no validator is produced
ValueError == [kind |-> "ValueError"]

\* Tuple.min written without the clamp to the number of fixed positions
Tuple_min_unclamped(v, n) == [v EXCEPT !.min_length = n]

\* Tuple.min: max(length, len(self._item_validators))
Tuple_min(v, n) == [v EXCEPT !.min_length = IF n > Len(v.items) THEN n ELSE Len(v.items)]

\* Tuple.max: refused with ValueError without a rest validator
Tuple_max(v, n) ==
    IF ~IsValidator(v.rest) THEN ValueError ELSE [v EXCEPT !.max_length = n]

\* Union.__init__ ; a discriminator of <<>> is None
Union_init(validators, discriminator) ==
    Validator_init("Union") @@
    [validators |-> validators, discriminator |-> discriminator,
     discriminator_map |-> <<>>]
\* Union.discriminator_mapping (called with a discriminator set)
Union_discriminator_mapping(v, mapping) == [v EXCEPT !.discriminator_map = mapping]

\* Object.__init__
Object_init(schema) == Validator_init("Object") @@ [dict |-> Dict_init(schema)]

\* Object.field_names
field_names(o) == {o.dict.schema[i].key : i \in 1..Len(o.dict.schema)}

\* hasattr(dict_validator, '_excluded_fields') and the set it holds
HasExcluded(d) == "excluded" \in DOMAIN d
Excluded(d) == IF HasExcluded(d) THEN d.excluded ELSE {}

\* Dict.exclude of voltar/validators/collections.py, which src/ does not hold:
\* a clone of the Dict validator that tracks the named keys as excluded
Dict_exclude(d, fields) ==
    IF HasExcluded(d) THEN [d EXCEPT !.excluded = @ \cup fields]
    ELSE d @@ [excluded |-> fields]

IsObject(o) == o.kind = "Object"

\* a variant of extend that builds the Object without looking for collisions
Object_extend_override(o, add) == Object_init(o.dict.schema \o add)

\* a variant of extend that leaves the new Object with the settings it was
\* constructed with
Object_extend_fresh(o, add) ==
    IF field_names(o) \cap {add[i].key : i \in 1..Len(add)} # {} THEN ValueError
    ELSE Object_init(o.dict.schema \o add)

\* Object.extend lines 71-103: a new Object over the combined schema, with
\* the settings of the original written over those of the fresh one
Object_extend(o, add) ==
    IF field_names(o) \cap {add[i].key : i \in 1..Len(add)} # {} THEN ValueError
    ELSE LET extended == Object_init(o.dict.schema \o add)
             d == [extended.dict EXCEPT !.additional = o.dict.additional,
                                        !.patterns = o.dict.patterns,
                                        !.min_properties = o.dict.min_properties,
                                        !.max_properties = o.dict.max_properties,
                                        !.required = o.dict.required]
         IN [extended EXCEPT !.dict = IF HasExcluded(o.dict)
                                      THEN d @@ [excluded |-> o.dict.excluded] ELSE d,
                             !.nullable = o.nullable,
                             !.optional = o.optional,
                             !.default = o.default,
                             !.custom = o.custom]

\* Object.exclude lines 122-124: a clone whose Dict validator is dict.exclude(fields)
Object_exclude(o, fields) == [o EXCEPT !.dict = Dict_exclude(o.dict, fields)]

\* a variant of omit that copies the required keys as they are
Object_omit_required(o, fields) ==
    LET new_validator == Object_init(SelectSeq(o.dict.schema, LAMBDA f : f.key \notin fields))
    IN [new_validator EXCEPT !.dict = [@ EXCEPT !.required = o.dict.required]]

\* Object.omit lines 148-173: a new Object over the schema without the named
\* keys; the excluded fields of the original are not written to it
Object_omit(o, fields) ==
    LET new_validator == Object_init(SelectSeq(o.dict.schema, LAMBDA f : f.key \notin fields))
    IN [new_validator EXCEPT !.dict = [@ EXCEPT !.additional = o.dict.additional,
                                                !.patterns = o.dict.patterns,
                                                !.min_properties = o.dict.min_properties,
                                                !.max_properties = o.dict.max_properties,
                                                !.required = o.dict.required \ fields],
                             !.nullable = o.nullable,
                             !.optional = o.optional,
                             !.default = o.default,
                             !.custom = o.custom]

\* pattern.match(key)
Match(pat, key) == Len(pat) <= Len(key) /\ SubSeq(key, 1, Len(pat)) = pat

\* key in result / result[key] on the ordered (keys, vals) of a dict
HasKey(keys, k) == \E i \in 1..Len(keys) : keys[i] = k
Slot(keys, k) == CHOOSE i \in 1..Len(keys) : keys[i] = k
SeqSet(s) == {s[i] : i \in 1..Len(s)}

\* iteration order of a Python set of keys: the keys of S in the order the
\* interpreter's string hashing (seeded per process) puts them
SetOrder(S) == SelectSeq(perm, LAMBDA k : k \in S)

(***************************************************************************)
(* The synchronous path.  A step is one child invocation of a composite's  *)
(* loops: the slot of the working copy it reads and writes, the path       *)
(* segment it appends, the child validator, and the loop it belongs to.    *)
(***************************************************************************)
Step(slot, seg, val, stage, rule) ==
    [slot |-> slot, seg |-> seg, val |-> val, stage |-> stage, rule |-> rule]
\* what the log keeps of one child invocation: where, by which loop, how it ended
Entry(path, st, ok) ==
    [path |-> path \o <<st.seg>>, stage |-> st.stage, rule |-> st.rule, ok |-> ok]

\* List._validate lines 163-167 / _validate_async lines 223-233: one step per item
List_steps(v, res) ==
    IF IsValidator(v.item)
    THEN [i \in 1..Len(res) |-> Step(i, Idx(i - 1), v.item, "item", 0)]
    ELSE <<>>

\* Tuple._validate lines 653-669: fixed positions, then the rest positions
Tuple_steps(v, res) ==
    [i \in 1..Len(v.items) |->
        IF i <= Len(res) THEN Step(i, Idx(i - 1), v.items[i], "item", i)
        ELSE Step(i, Idx(i - 1), v, "missing", i)]
    \o (IF IsValidator(v.rest) /\ Len(res) > Len(v.items)
        THEN [j \in 1..(Len(res) - Len(v.items)) |->
                Step(Len(v.items) + j, Idx(Len(v.items) + j - 1), v.rest, "rest", 0)]
        ELSE <<>>)

\* Dict._validate lines 405-410: schema keys present in the input, schema order
Dict_schema_steps(v, keys) ==
    SelectSeq([i \in 1..Len(v.schema) |->
                  Step(IF HasKey(keys, v.schema[i].key) THEN Slot(keys, v.schema[i].key) ELSE 0,
                       Key(v.schema[i].key), v.schema[i].val, "schema", i)],
              LAMBDA st : st.slot # 0)

\* Dict._validate lines 412-419: for every rule, every key of the input it matches
Dict_pattern_steps(v, keys) ==
    SelectSeq([n \in 1..(Len(v.patterns) * Len(keys)) |->
                  LET r == ((n - 1) \div Len(keys)) + 1
                      j == ((n - 1) % Len(keys)) + 1
                  IN Step(IF Match(v.patterns[r].pat, keys[j]) THEN j ELSE 0,
                          Key(keys[j]), v.patterns[r].val, "pattern", r)],
              LAMBDA st : st.slot # 0)

\* Dict._validate lines 432-434: the unvalidated keys, in set order
Dict_additional_steps(v, keys, unvalidated) ==
    IF v.additional.t = "validator"
    THEN LET ord == SetOrder(unvalidated) IN
         [i \in 1..Len(ord) |->
             Step(Slot(keys, ord[i]), Key(ord[i]), v.additional.v, "additional", 0)]
    ELSE <<>>

StepKeys(steps) == {steps[i].seg.key : i \in 1..Len(steps)}

RECURSIVE validate_(_, _, _)
RECURSIVE RunSync(_, _, _, _, _)

RECURSIVE RunSync_continue(_, _, _, _, _)
\* a variant of the loop that goes on to the children after a failing one and
\* raises the first failure at the end
RunSync_continue(steps, res, path, i, lg) ==
    IF i > Len(steps) THEN [ok |-> TRUE, out |-> NoOutcome, res |-> res, log |-> lg]
    ELSE LET st == steps[i]
             r == validate_(st.val, res[st.slot], path \o <<st.seg>>).out
         IN IF r.ok
            THEN RunSync_continue(steps, [res EXCEPT ![st.slot] = r.val], path, i + 1,
                                  Append(lg, Entry(path, st, TRUE)))
            ELSE [ok |-> FALSE, out |-> r, res |-> res,
                  log |-> RunSync_continue(steps, res, path, i + 1,
                                           Append(lg, Entry(path, st, FALSE))).log]

\* the body of a composite's validation loop: children in order, stop at a failure
RunSync(steps, res, path, i, lg) ==
    IF i > Len(steps) THEN [ok |-> TRUE, out |-> NoOutcome, res |-> res, log |-> lg]
    ELSE LET st == steps[i]
             r == IF st.stage = "missing"
                  THEN ValidationError(get_error_message(st.val, Msg("Missing item at position")), path)
                  ELSE validate_(st.val, res[st.slot], path \o <<st.seg>>).out
         IN IF r.ok
            THEN RunSync(steps, [res EXCEPT ![st.slot] = r.val], path, i + 1,
                         Append(lg, Entry(path, st, TRUE)))
            ELSE [ok |-> FALSE, out |-> r, res |-> res,
                  log |-> IF st.stage = "missing" THEN lg ELSE Append(lg, Entry(path, st, FALSE))]

\* len(set(result)) != len(result), or the pairwise scan for unhashable items
HasDuplicate(items) == \E i, j \in 1..Len(items) : i < j /\ items[i] = items[j]

\* List._validate / _validate_async lines 114-161: the checks before the items
List_precheck(v, data, path) ==
    IF data.ty \notin {"list", "tuple"} THEN
        ValidationError(get_error_message(v, MsgGot("Expected list", data)), path)
    ELSE IF v.nonempty /\ Len(data.items) = 0 THEN
        ValidationError(get_error_message(v, Msg("List cannot be empty")), path)
    ELSE IF v.min_length # NoInt /\ Len(data.items) < v.min_length THEN
        ValidationError(get_error_message(v, Msg("List must have at least")), path)
    ELSE IF v.max_length # NoInt /\ Len(data.items) > v.max_length THEN
        ValidationError(get_error_message(v, Msg("List must have at most")), path)
    ELSE IF v.unique /\ HasDuplicate(data.items) THEN
        ValidationError(get_error_message(v, Msg("List items must be unique")), path)
    ELSE NoOutcome

\* List._validate
List_validate(v, data, path) ==
    IF IsNone(data) /\ v.nullable THEN [out |-> Ok(None), log |-> <<>>]
    ELSE IF List_precheck(v, data, path) # NoOutcome THEN
        [out |-> List_precheck(v, data, path), log |-> <<>>]
    ELSE LET r == RunSync(List_steps(v, data.items), data.items, path, 1, <<>>) IN
        [out |-> IF r.ok THEN Ok(PyList(r.res)) ELSE r.out, log |-> r.log]

\* Tuple._validate / _validate_async lines 629-651: type and length checks
Tuple_precheck(v, data, path) ==
    IF data.ty \notin {"list", "tuple"} THEN
        ValidationError(get_error_message(v, MsgGot("Expected tuple", data)), path)
    ELSE IF Len(data.items) < v.min_length THEN
        ValidationError(get_error_message(v, Msg("Tuple must have at least")), path)
    ELSE IF v.max_length # NoInt /\ Len(data.items) > v.max_length THEN
        ValidationError(get_error_message(v, Msg("Tuple must have at most")), path)
    ELSE NoOutcome

\* Tuple._validate
Tuple_validate(v, data, path) ==
    IF IsNone(data) /\ v.nullable THEN [out |-> Ok(None), log |-> <<>>]
    ELSE IF Tuple_precheck(v, data, path) # NoOutcome THEN
        [out |-> Tuple_precheck(v, data, path), log |-> <<>>]
    ELSE LET r == RunSync(Tuple_steps(v, data.items), data.items, path, 1, <<>>) IN
        [out |-> IF r.ok THEN Ok(PyTuple(r.res)) ELSE r.out, log |-> r.log]

MsgKeys(m, keys) == [m |-> m, got |-> "", keys |-> keys]

\* a variant of the checks that looks for the required keys before the count
Dict_precheck_required_first(v, data, path) ==
    IF data.ty # "dict" THEN
        ValidationError(get_error_message(v, MsgGot("Expected object/dict", data)), path)
    ELSE IF v.required \ SeqSet(data.keys) # {} THEN
        ValidationError(get_error_message(v,
            MsgKeys("Missing required properties", v.required \ SeqSet(data.keys))), path)
    ELSE IF v.min_properties # NoInt /\ Len(data.keys) < v.min_properties THEN
        ValidationError(get_error_message(v, Msg("Object must have at least")), path)
    ELSE IF v.max_properties # NoInt /\ Len(data.keys) > v.max_properties THEN
        ValidationError(get_error_message(v, Msg("Object must have at most")), path)
    ELSE NoOutcome

\* Dict._validate / _validate_async lines 369-400: type, property count, required keys
Dict_precheck(v, data, path) ==
    IF data.ty # "dict" THEN
        ValidationError(get_error_message(v, MsgGot("Expected object/dict", data)), path)
    ELSE IF v.min_properties # NoInt /\ Len(data.keys) < v.min_properties THEN
        ValidationError(get_error_message(v, Msg("Object must have at least")), path)
    ELSE IF v.max_properties # NoInt /\ Len(data.keys) > v.max_properties THEN
        ValidationError(get_error_message(v, Msg("Object must have at most")), path)
    ELSE IF v.required \ SeqSet(data.keys) # {} THEN
        ValidationError(get_error_message(v,
            MsgKeys("Missing required properties", v.required \ SeqSet(data.keys))), path)
    ELSE NoOutcome

\* Dict._validate lines 402-436
Dict_validate(v, data, path) ==
    IF IsNone(data) /\ v.nullable THEN [out |-> Ok(None), log |-> <<>>]
    ELSE IF Dict_precheck(v, data, path) # NoOutcome THEN
        [out |-> Dict_precheck(v, data, path), log |-> <<>>]
    ELSE LET named == Dict_schema_steps(v, data.keys) \o Dict_pattern_steps(v, data.keys)
             r1 == RunSync(named, data.vals, path, 1, <<>>)
             unvalidated == SeqSet(data.keys) \ StepKeys(named)
         IN IF ~r1.ok THEN [out |-> r1.out, log |-> r1.log]
            ELSE IF unvalidated # {} /\ v.additional.t = "false" THEN
                [out |-> ValidationError(get_error_message(v,
                            MsgKeys("Unexpected additional properties", unvalidated)), path),
                 log |-> r1.log]
            ELSE LET r2 == RunSync(Dict_additional_steps(v, data.keys, unvalidated),
                                   r1.res, path, 1, r1.log)
                 IN [out |-> IF r2.ok THEN Ok(PyDict(data.keys, r2.res)) ELSE r2.out,
                     log |-> r2.log]

\* Union._validate lines 788-796: the discriminator names a mapped validator
Union_mapped(v, data) ==
    IF /\ v.discriminator # <<>>
       /\ data.ty = "dict"
       /\ HasKey(data.keys, v.discriminator)
       /\ v.discriminator_map # <<>>
    THEN LET dv == data.vals[Slot(data.keys, v.discriminator)]
             hits == {i \in 1..Len(v.discriminator_map) : v.discriminator_map[i].value = dv}
         IN IF hits # {} THEN v.discriminator_map[CHOOSE i \in hits : TRUE].val ELSE Absent
    ELSE Absent

\* the positions of the input whose keys are not excluded
KeptSlots(keys, ex) ==
    SelectSeq([i \in 1..Len(keys) |-> i], LAMBDA i : keys[i] \notin ex)
\* the input and the validator without the excluded keys
KeptData(data, ex) ==
    LET kept == KeptSlots(data.keys, ex) IN
    PyDict([j \in 1..Len(kept) |-> data.keys[kept[j]]],
           [j \in 1..Len(kept) |-> data.vals[kept[j]]])
KeptDict(d, ex) ==
    [d EXCEPT !.schema = SelectSeq(@, LAMBDA f : f.key \notin ex), !.required = @ \ ex]
\* the validated values written back among the untouched excluded ones
Reinserted(data, ex, out) ==
    IF ~out.ok THEN out
    ELSE Ok(PyDict(data.keys,
            [i \in 1..Len(data.keys) |->
                IF data.keys[i] \in ex THEN data.vals[i]
                ELSE out.val.vals[Slot(out.val.keys, data.keys[i])]]))

\* Object._validate: the Dict validator's _validate.  That of voltar's
\* collections.py skips the excluded fields: they are not required, not
\* validated, and stay in the output as they are
Object_validate(o, data, path) ==
    IF Excluded(o.dict) = {} \/ data.ty # "dict" THEN Dict_validate(o.dict, data, path)
    ELSE LET r == Dict_validate(KeptDict(o.dict, Excluded(o.dict)),
                                KeptData(data, Excluded(o.dict)), path)
         IN [out |-> Reinserted(data, Excluded(o.dict), r.out), log |-> r.log]

\* Union._validate line 795: `discriminator_value in self._discriminator_map`
\* hashes the value; a list or a dict is unhashable
Union_unhashable(v, data) ==
    /\ v.discriminator # <<>>
    /\ data.ty = "dict"
    /\ HasKey(data.keys, v.discriminator)
    /\ v.discriminator_map # <<>>
    /\ data.vals[Slot(data.keys, v.discriminator)].ty \in {"list", "dict"}

\* "Option i: str(e)"
Option(i, e) == [opt |-> i, path |-> e.path, msg |-> e.msg]
MsgOptions(errors) == [m |-> "Value does not match any of the expected types", got |-> "",
                       opts |-> errors]

RECURSIVE Union_try(_, _, _, _, _, _)
\* Union._validate lines 798-810: candidates in turn, the first success returns
Union_try(v, data, path, i, errors, lg) ==
    IF i > Len(v.validators) THEN
        [out |-> ValidationError(get_error_message(v, MsgOptions(errors)), path), log |-> lg]
    ELSE LET r == validate_(v.validators[i], data, path).out
             lg2 == Append(lg, [path |-> path, stage |-> "candidate", rule |-> i, ok |-> r.ok])
         IN IF r.ok \/ ~IsValidationError(r) THEN [out |-> r, log |-> lg2]
            ELSE Union_try(v, data, path, i + 1, Append(errors, Option(i, r)), lg2)

\* Union._validate
Union_validate(v, data, path) ==
    IF Union_unhashable(v, data) THEN [out |-> TypeError, log |-> <<>>]
    ELSE IF IsValidator(Union_mapped(v, data))
    THEN [out |-> validate_(Union_mapped(v, data), data, path).out,
          log |-> <<[path |-> path, stage |-> "mapped", rule |-> 0,
                     ok |-> validate_(Union_mapped(v, data), data, path).out.ok]>>]
    ELSE Union_try(v, data, path, 1, <<>>, <<>>)

\* v._validate(data, path), by the class of v
validate_(v, data, path) ==
    CASE v.kind = "String" -> [out |-> String_validate(v, data, path), log |-> <<>>]
      [] v.kind = "Number" -> [out |-> Number_validate(v, data, path), log |-> <<>>]
      [] v.kind = "Any" -> [out |-> Any_validate(v, data, path), log |-> <<>>]
      [] v.kind = "Null" -> [out |-> Null_validate(v, data, path), log |-> <<>>]
      [] v.kind = "List" -> List_validate(v, data, path)
      [] v.kind = "Tuple" -> Tuple_validate(v, data, path)
      [] v.kind = "Dict" -> Dict_validate(v, data, path)
      [] v.kind = "Union" -> Union_validate(v, data, path)
      [] OTHER -> Object_validate(v, data, path)

\* a variant of the None handling that tests nullable before the default
NonePrecedence_nullable_first(v, n) ==
    IF v.nullable \/ is_nullable(v) THEN Ok(None)
    ELSE IF v.default.t # "none" THEN Ok(resolve_default(v, n))
    ELSE IF v.optional THEN Ok(None)
    ELSE ValidationError(get_error_message(v, Msg("Value is required")), <<>>)

\* Validator.validate / validate_async, the part for data is None
NonePrecedence(v, n) ==
    IF v.default.t # "none" THEN Ok(resolve_default(v, n))
    ELSE IF v.nullable \/ is_nullable(v) THEN Ok(None)
    ELSE IF v.optional THEN Ok(None)
    ELSE ValidationError(get_error_message(v, Msg("Value is required")), <<>>)

\* a variant of Null.validate that answers None as Validator.validate does
Null_validate_entry_inherited(v, data) ==
    IF IsNone(data) THEN [out |-> NonePrecedence(v, 0), log |-> <<>>]
    ELSE validate_(v, data, <<>>)

\* Null.validate (primitives.py): None is returned for None whatever the default
Null_validate_entry(v, data) ==
    IF IsNone(data) THEN [out |-> Ok(None), log |-> <<>>]
    ELSE validate_(v, data, <<>>)

\* try: ... except ValidationError as e: raise self._wrap_error(e)
Wrapped(v, out) == IF IsValidationError(out) THEN wrap_error(v, out) ELSE out

\* Validator.validate
Validator_validate(v, data, n) ==
    IF IsNone(data) THEN [out |-> NonePrecedence(v, n), log |-> <<>>]
    ELSE LET r == validate_(v, data, <<>>) IN
         [out |-> Wrapped(v, r.out), log |-> r.log]

\* v.validate(data), by the class of v; n default-producer calls were made before
validate(v, data, n) ==
    IF v.kind = "Null" THEN Null_validate_entry(v, data)
    ELSE Validator_validate(v, data, n)

\* whether v.validate(data) / v.validate_async(data) calls the default producer
CallsProducer(v, data, m) ==
    /\ IsNone(data)
    /\ v.default.t = "producer"
    /\ ~(v.kind = "Null" /\ m = "sync")

(***************************************************************************)
(* The asynchronous path.  A composite creates one asyncio task per step,  *)
(* then awaits them; a task's outcome is what the child's _validate_async  *)
(* returns or raises for the data it was created with.                     *)
(***************************************************************************)
RECURSIVE Dict_pattern_scan(_, _, _, _, _)
\* Dict._validate_async lines 492-503: a key already in validated_keys is skipped
Dict_pattern_scan(v, keys, n, validated, acc) ==
    IF n > Len(v.patterns) * Len(keys) THEN acc
    ELSE LET r == ((n - 1) \div Len(keys)) + 1
             j == ((n - 1) % Len(keys)) + 1
         IN IF keys[j] \notin validated /\ Match(v.patterns[r].pat, keys[j])
            THEN Dict_pattern_scan(v, keys, n + 1, validated \cup {keys[j]},
                     Append(acc, Step(j, Key(keys[j]), v.patterns[r].val, "pattern", r)))
            ELSE Dict_pattern_scan(v, keys, n + 1, validated, acc)

Dict_pattern_tasks(v, keys) ==
    Dict_pattern_scan(v, keys, 1, StepKeys(Dict_schema_steps(v, keys)), <<>>)

\* Dict._validate_async lines 480-514: schema, pattern and additional tasks
Dict_tasks(v, keys) ==
    LET named == Dict_schema_steps(v, keys) \o Dict_pattern_tasks(v, keys)
    IN named \o Dict_additional_steps(v, keys, SeqSet(keys) \ StepKeys(named))

\* Union._validate_async lines 827-834: one task per candidate
Union_tasks(v) ==
    [i \in 1..Len(v.validators) |-> Step(0, Idx(0), v.validators[i], "candidate", i)]

\* the tasks a composite creates for its input, in creation order
TaskSteps(v, data) ==
    CASE v.kind = "List" -> List_steps(v, data.items)
      [] v.kind = "Tuple" -> Tuple_steps(v, data.items)
      [] v.kind = "Dict" -> Dict_tasks(v, data.keys)
      [] OTHER -> Union_tasks(v)

\* the composite's working copy: result = list(data) / dict(data)
WorkingCopy(data) ==
    CASE data.ty \in {"list", "tuple"} -> data.items
      [] data.ty = "dict" -> data.vals
      [] OTHER -> <<>>

FirstFailed(outs) == CHOOSE i \in 1..Len(outs) : ~outs[i].ok /\ \A j \in 1..(i - 1) : outs[j].ok
AnyFailed(outs) == \E i \in 1..Len(outs) : ~outs[i].ok

\* result[i] = value for every step, in step order
RECURSIVE Assign(_, _, _, _)
Assign(res, steps, outs, i) ==
    IF i > Len(steps) THEN res
    ELSE Assign([res EXCEPT ![steps[i].slot] = outs[i].val], steps, outs, i + 1)

\* Dict._validate_async lines 557-566: the check for unexpected properties, the return
Dict_finish(v, data, res, steps, path) ==
    LET unvalidated == SeqSet(data.keys) \
                         {steps[i].seg.key : i \in {j \in 1..Len(steps) :
                                                      steps[j].stage # "additional"}}
    IN IF unvalidated # {} /\ v.additional.t = "false"
       THEN ValidationError(get_error_message(v,
                MsgKeys("Unexpected additional properties", unvalidated)), path)
       ELSE Ok(PyDict(data.keys, res))

\* a variant of the scan of the gathered candidates that keeps the last success
FirstOk_last(outs) ==
    CHOOSE i \in 1..Len(outs) : outs[i].ok /\ \A j \in (i + 1)..Len(outs) : ~outs[j].ok

\* Union._validate_async lines 840-843: the first success in the gathered order
FirstOk(outs) == CHOOSE i \in 1..Len(outs) : outs[i].ok /\ \A j \in 1..(i - 1) : ~outs[j].ok

\* Union._validate_async lines 839-850: the first success in declared order
Union_finish(v, outs, path) ==
    IF \E i \in 1..Len(outs) : outs[i].ok THEN outs[FirstOk(outs)]
    ELSE ValidationError(get_error_message(v,
            MsgOptions([i \in 1..Len(outs) |-> Option(i, outs[i])])), path)

RECURSIVE validate_async_(_, _, _)

\* the outcome of the task created for one step
TaskOutcome(v, data, st, path) ==
    IF st.stage = "missing" THEN
        ValidationError(get_error_message(st.val, Msg("Missing item at position")), path)
    ELSE IF st.stage = "candidate" THEN validate_async_(st.val, data, path)
    ELSE validate_async_(st.val, WorkingCopy(data)[st.slot], path \o <<st.seg>>)

\* what a composite child's _validate_async delivers once its own tasks are
\* done: the failure of the first failed task in creation order, else the copy
Composite_async(v, data, path) ==
    LET pre == CASE v.kind = "List" -> List_precheck(v, data, path)
                 [] v.kind = "Tuple" -> Tuple_precheck(v, data, path)
                 [] v.kind = "Dict" -> Dict_precheck(v, data, path)
                 [] OTHER -> NoOutcome
        steps == TaskSteps(v, data)
        outs == [i \in 1..Len(steps) |-> TaskOutcome(v, data, steps[i], path)]
    IN IF IsNone(data) /\ v.nullable /\ v.kind # "Union" THEN Ok(None)
       ELSE IF pre # NoOutcome THEN pre
       ELSE IF v.kind = "Union" THEN
            (IF Union_unhashable(v, data) THEN TypeError
             ELSE IF IsValidator(Union_mapped(v, data))
             THEN validate_async_(Union_mapped(v, data), data, path)
             ELSE Union_finish(v, outs, path))
       ELSE IF AnyFailed(outs) THEN outs[FirstFailed(outs)]
       ELSE LET res == Assign(WorkingCopy(data), steps, outs, 1) IN
            CASE v.kind = "List" -> Ok(PyList(res))
              [] v.kind = "Tuple" -> Ok(PyTuple(res))
              [] OTHER -> Dict_finish(v, data, res, steps, path)

\* Object._validate_async: the Dict validator's _validate_async, which skips
\* the excluded fields as _validate does
Object_validate_async(o, data, path) ==
    IF Excluded(o.dict) = {} \/ data.ty # "dict" THEN Composite_async(o.dict, data, path)
    ELSE Reinserted(data, Excluded(o.dict),
                    Composite_async(KeptDict(o.dict, Excluded(o.dict)),
                                    KeptData(data, Excluded(o.dict)), path))

\* v._validate_async(data, path): Validator._validate_async runs _validate;
\* List, Dict, Tuple, Union and Object override it
validate_async_(v, data, path) ==
    CASE v.kind \in {"String", "Number", "Any", "Null"} -> validate_(v, data, path).out
      [] v.kind = "Object" -> Object_validate_async(v, data, path)
      [] OTHER -> Composite_async(v, data, path)

(***************************************************************************)
(* The calls.  validate is one step.  validate_async is the process of the *)
(* composite: it creates its tasks, suspends at an await, is resumed when  *)
(* what it awaits is done, and delivers a value or a failure.  The event   *)
(* loop runs a created task only while the composite is suspended, and     *)
(* tasks finish in any order.                                              *)
(***************************************************************************)
IsComposite(v) == v.kind \in {"List", "Tuple", "Dict", "Union", "Object"}
\* Object._validate_async hands over to its Dict validator
Composite(v) == IF v.kind = "Object" THEN v.dict ELSE v

Precheck(c, data) ==
    CASE c.kind = "List" -> List_precheck(c, data, <<>>)
      [] c.kind = "Tuple" -> Tuple_precheck(c, data, <<>>)
      [] c.kind = "Dict" -> Dict_precheck(c, data, <<>>)
      [] OTHER -> NoOutcome

(***************************************************************************)
(* The caller's object.  A composite is handed the caller's list, tuple or *)
(* dict, and hands each child the object it holds at the child's slot.     *)
(***************************************************************************)
\* a list, tuple or dict with the items or values given
WithItems(data, items) ==
    IF data.ty = "dict" THEN PyDict(data.keys, items) ELSE [data EXCEPT !.items = items]

\* a variant in which result is the object handed in: what is written to it
\* is written to the caller's object
CallerSees_same(own, written) == written

\* result = list(data) / dict(data): result is a new object, and what is
\* written to it does not reach the object handed in, which holds own
CallerSees(own, written) == own

\* the steps of the loops of _validate, in order
SyncSteps(c, data) ==
    CASE c.kind = "List" -> List_steps(c, data.items)
      [] c.kind = "Tuple" -> Tuple_steps(c, data.items)
      [] OTHER ->
            LET named == Dict_schema_steps(c, data.keys) \o Dict_pattern_steps(c, data.keys)
                unvalidated == SeqSet(data.keys) \ StepKeys(named)
            IN IF unvalidated # {} /\ c.additional.t = "false" THEN named
               ELSE named \o Dict_additional_steps(c, data.keys, unvalidated)

\* _validate stops at the first failing child: r is what its loops leave
WrittenSync(steps, r) == [steps |-> steps, ran |-> Len(r.log), res |-> r.res]

\* _validate_async runs every task and writes the values of the tasks before
\* the first failed one
WrittenAsync(data, steps, outs) ==
    [steps |-> steps, ran |-> Len(steps),
     res |-> Assign(WorkingCopy(data),
                    SubSeq(steps, 1, IF AnyFailed(outs) THEN FirstFailed(outs) - 1
                                     ELSE Len(steps)),
                    outs, 1)]

\* the steps of the call, how many children ran, and what result holds when
\* the call ends
Written(m, c, data) ==
    IF m = "sync"
    THEN WrittenSync(SyncSteps(c, data),
                     RunSync(SyncSteps(c, data), WorkingCopy(data), <<>>, 1, <<>>))
    ELSE WrittenAsync(data, TaskSteps(c, data),
                      [i \in 1..Len(TaskSteps(c, data)) |->
                          TaskOutcome(c, data, TaskSteps(c, data)[i], <<>>)])

\* the candidates of a Union that are tried: validate stops at the first that
\* accepts, validate_async runs them all
Tried(m, outs) ==
    IF m = "sync" /\ \E i \in 1..Len(outs) : outs[i].ok THEN FirstOk(outs) ELSE Len(outs)

RECURSIVE Seen(_, _, _)
\* the items after the first n steps ran: the child of a step is handed the
\* object at its slot, the caller's own item when no step wrote the slot before
RECURSIVE ChildrenSeen(_, _, _, _, _)
ChildrenSeen(m, steps, items, n, i) ==
    IF i > n THEN items
    ELSE ChildrenSeen(m, steps,
             IF steps[i].stage # "missing" /\ \A j \in 1..(i - 1) : steps[j].slot # steps[i].slot
             THEN [items EXCEPT ![steps[i].slot] = Seen(m, steps[i].val, items[steps[i].slot])]
             ELSE items,
             n, i + 1)

\* the object after each of the first n candidates of a Union was handed it
RECURSIVE CandidatesSeen(_, _, _, _, _)
CandidatesSeen(m, c, data, n, i) ==
    IF i > n THEN data
    ELSE CandidatesSeen(m, c, Seen(m, c.validators[i], data), n, i + 1)

\* the object handed to a List, Tuple or Dict after the call that ran w.ran
\* of its children and left w.res in result
AfterWrites(m, data, w) ==
    CallerSees(WithItems(data, ChildrenSeen(m, w.steps, WorkingCopy(data), w.ran, 1)),
               WithItems(data, w.res))

\* what the object handed to v._validate (m = "sync") or v._validate_async
\* holds when the call has ended
Seen(m, v, data) ==
    IF IsNone(data) \/ ~IsComposite(v) THEN data
    ELSE LET c == Composite(v) IN
         IF c.kind = "Union" THEN
            (IF Union_unhashable(c, data) THEN data
             ELSE IF IsValidator(Union_mapped(c, data))
             THEN Seen(m, Union_mapped(c, data), data)
             ELSE CandidatesSeen(m, c, data,
                     Tried(m, [i \in 1..Len(c.validators) |->
                                  validate_(c.validators[i], data, <<>>).out]), 1))
         ELSE IF Precheck(c, data) # NoOutcome THEN data
         ELSE AfterWrites(m, data, Written(m, c, data))

Task(st) == [slot |-> st.slot, seg |-> st.seg, stage |-> st.stage, rule |-> st.rule,
             done |-> FALSE, out |-> NoOutcome]

Deliver(out) ==
    /\ outcome' = out
    /\ pc' = "done"

Validate(d) ==
    /\ pc = "idle"
    /\ CallsProducer(V, d, "sync") => counter < MaxCalls
    /\ mode' = "sync"
    /\ x' = d
    /\ Deliver(validate(V, d, counter).out)
    /\ log' = validate(V, d, counter).log
    /\ counter' = IF CallsProducer(V, d, "sync") THEN counter + 1 ELSE counter
    /\ input' = Seen("sync", V, d)
    /\ UNCHANGED <<V, tasks, result, cur, perm, heap, last, other, report>>

\* Validator.validate_async up to the first task creation of the composite
ValidateAsync(d) ==
    /\ pc = "idle"
    /\ CallsProducer(V, d, "async") => counter < MaxCalls
    /\ mode' = "async"
    /\ x' = d
    /\ counter' = IF CallsProducer(V, d, "async") THEN counter + 1 ELSE counter
    /\ IF IsNone(d) THEN
            Deliver(NonePrecedence(V, counter)) /\ UNCHANGED result
       ELSE IF ~IsComposite(V) THEN
            Deliver(Wrapped(V, validate_async_(V, d, <<>>))) /\ UNCHANGED result
       ELSE IF Precheck(Composite(V), d) # NoOutcome THEN
            Deliver(wrap_error(V, Precheck(Composite(V), d))) /\ UNCHANGED result
       ELSE IF V.kind = "Union" /\ Union_unhashable(V, d) THEN
            Deliver(TypeError) /\ UNCHANGED result
       ELSE IF V.kind = "Union" /\ IsValidator(Union_mapped(V, d)) THEN
            Deliver(Wrapped(V, validate_async_(Union_mapped(V, d), d, <<>>)))
            /\ UNCHANGED result
       ELSE /\ pc' = "create"
            /\ result' = WorkingCopy(d)
            /\ UNCHANGED outcome
    /\ input' = IF pc' = "create" THEN d ELSE Seen("async", V, d)
    /\ UNCHANGED <<V, log, tasks, cur, perm, heap, last, other, report>>

\* a variant of the exit test that leaves the loop after the first task
AllCreated_first(created, planned) == created = planned \/ created >= 1

\* the exit test of the task-creating loops: every planned task is created
AllCreated(created, planned) == created = planned

\* asyncio.create_task(...) in the loops of the _validate_async methods
CreateTask ==
    /\ pc = "create"
    /\ LET steps == TaskSteps(Composite(V), x) IN
       /\ Len(tasks) < Len(steps)
       /\ LET st == steps[Len(tasks) + 1] IN
          IF st.stage = "missing"
          THEN Deliver(wrap_error(V, TaskOutcome(Composite(V), x, st, <<>>)))
               /\ UNCHANGED tasks
          ELSE tasks' = Append(tasks, Task(st)) /\ UNCHANGED <<outcome, pc>>
    /\ UNCHANGED <<V, mode, x, log, result, cur, counter, perm, heap, last, other, report, input>>

\* the tasks Dict gathers first (lines 517-518): those of the schema keys
Gathered(c, ts) ==
    IF c.kind = "Dict" THEN SelectSeq(ts, LAMBDA t : t.stage = "schema") ELSE ts

\* what the composite does once its tasks are created: List (line 236), Dict
\* (line 517) and Union (line 837) gather, Tuple (line 725) awaits one by one
Proceed ==
    /\ pc = "create"
    /\ AllCreated(Len(tasks), Len(TaskSteps(Composite(V), x)))
    /\ LET c == Composite(V) IN
       CASE c.kind = "List" /\ tasks = <<>> ->
                Deliver(Ok(PyList(result))) /\ UNCHANGED cur
         [] c.kind = "Union" /\ tasks = <<>> ->
                Deliver(wrap_error(V, Union_finish(c, <<>>, <<>>))) /\ UNCHANGED cur
         [] c.kind \in {"List", "Union"} /\ tasks # <<>> ->
                pc' = "gather" /\ UNCHANGED <<outcome, cur>>
         [] c.kind = "Dict" /\ Gathered(c, tasks) # <<>> ->
                pc' = "gather" /\ UNCHANGED <<outcome, cur>>
         [] OTHER -> pc' = "seq" /\ cur' = 1 /\ UNCHANGED outcome
    /\ UNCHANGED <<V, mode, x, log, tasks, result, counter, perm, heap, last, other, report, input>>

\* the event loop runs one created task to its end
TaskRun(i) ==
    /\ pc \in {"gather", "seq"}
    /\ i \in 1..Len(tasks)
    /\ ~tasks[i].done
    /\ tasks' = [tasks EXCEPT ![i].done = TRUE,
                              ![i].out = TaskOutcome(Composite(V), x,
                                            TaskSteps(Composite(V), x)[i], <<>>)]
    /\ LET st == TaskSteps(Composite(V), x)[i] IN
       input' = IF st.stage = "candidate" THEN Seen("async", st.val, input)
                ELSE WithItems(input, [WorkingCopy(input) EXCEPT
                                         ![st.slot] = Seen("async", st.val, @)])
    /\ UNCHANGED <<V, pc, mode, x, outcome, log, result, cur, counter, perm, heap, last, other, report>>

\* a variant of gather that also waits for a task that was never created
GatherReady_unlaunched(ts) == \A i \in 1..(Len(ts) + 1) : i <= Len(ts) /\ ts[i].done

\* await asyncio.gather(*tasks, return_exceptions=True): resumed when all are done
GatherReady(ts) == \A i \in 1..Len(ts) : ts[i].done

\* a variant of the scan of the gathered results that keeps the last exception
PickFailure_last(outs) ==
    outs[CHOOSE i \in 1..Len(outs) : ~outs[i].ok /\ \A j \in (i + 1)..Len(outs) : outs[j].ok]

\* the loops over the gathered results: the first exception in order is raised
PickFailure(outs) == outs[FirstFailed(outs)]

Outs(ts) == [i \in 1..Len(ts) |-> ts[i].out]

ResumeGather ==
    /\ pc = "gather"
    /\ LET c == Composite(V)
           g == Gathered(c, tasks)
       IN /\ GatherReady(g)
          /\ CASE c.kind = "Union" ->
                    /\ Deliver(Wrapped(V, Union_finish(c, Outs(g), <<>>)))
                    /\ UNCHANGED <<result, cur>>
               [] c.kind # "Union" /\ AnyFailed(Outs(g)) ->
                    /\ Deliver(wrap_error(V, PickFailure(Outs(g))))
                    /\ UNCHANGED <<result, cur>>
               [] c.kind = "List" /\ ~AnyFailed(Outs(g)) ->
                    /\ Deliver(Ok(PyList(Assign(result, g, Outs(g), 1))))
                    /\ result' = Assign(result, g, Outs(g), 1)
                    /\ UNCHANGED cur
               [] OTHER ->
                    /\ result' = Assign(result, g, Outs(g), 1)
                    /\ pc' = "seq"
                    /\ cur' = Len(g) + 1
                    /\ UNCHANGED outcome
    /\ LET g == Gathered(Composite(V), tasks)
           n == IF AnyFailed(Outs(g)) THEN FirstFailed(Outs(g)) - 1 ELSE Len(g)
       IN input' = IF Composite(V).kind = "Union" THEN input
                   ELSE CallerSees(input,
                            WithItems(input, Assign(result, SubSeq(g, 1, n), Outs(g), 1)))
    /\ UNCHANGED <<V, mode, x, log, tasks, counter, perm, heap, last, other, report>>

\* result[key] = await task: resumed when that one task is done
AwaitReady(t) == t.done

ResumeSeq ==
    /\ pc = "seq"
    /\ cur <= Len(tasks)
    /\ AwaitReady(tasks[cur])
    /\ IF tasks[cur].out.ok
       THEN /\ result' = [result EXCEPT ![tasks[cur].slot] = tasks[cur].out.val]
            /\ cur' = cur + 1
            /\ UNCHANGED <<outcome, pc>>
       ELSE /\ Deliver(wrap_error(V, tasks[cur].out))
            /\ UNCHANGED <<result, cur>>
    /\ input' = CallerSees(input, WithItems(input, result'))
    /\ UNCHANGED <<V, mode, x, log, tasks, counter, perm, heap, last, other, report>>

\* Tuple line 736 / Dict lines 557-566: past the last await
FinishSeq ==
    /\ pc = "seq"
    /\ cur > Len(tasks)
    /\ LET c == Composite(V) IN
       IF c.kind = "Tuple" THEN Deliver(Ok(PyTuple(result)))
       ELSE Deliver(Wrapped(V, Dict_finish(c, x, result, tasks, <<>>)))
    /\ UNCHANGED <<V, mode, x, log, tasks, result, cur, counter, perm, heap, last, other, report, input>>

\* the caller has its answer; the validator is free for the next call
Return ==
    /\ pc = "done"
    /\ pc' = "idle"
    /\ mode' = ""
    /\ x' = None
    /\ outcome' = NoOutcome
    /\ log' = <<>>
    /\ tasks' = <<>>
    /\ result' = <<>>
    /\ cur' = 0
    /\ other' = NoOther
    /\ input' = None
    /\ UNCHANGED <<V, counter, perm, heap, last, report>>

(***************************************************************************)
(* The validators and inputs the model runs.                               *)
(***************************************************************************)
Min(a, b) == IF a < b THEN a ELSE b

AllKeys == << <<"a">>, <<"a", "b">>, <<"b">>, <<"b", "a">> >>
Keys == {AllKeys[i] : i \in 1..Min(MaxKeys, Len(AllKeys))}
KA == <<"a">>
KAB == <<"a", "b">>

S2 == PyStr(<<"a", "b">>)
S3 == PyStr(<<"a", "b", "c">>)
I1 == PyInt(1)
S2U == PyStr(Upper(S2.s))

Smin3 == String_min(String_init, 3)
Supper == String_uppercase(String_init)
Field(k, v) == [key |-> k, val |-> v]

Catalogue ==
    << List_init(Smin3),
       List_init(Supper),
       List_init(List_init(Smin3)),
       List_unique(List_init(nullable(String_init))),
       List_max(List_min(List_nonempty(List_init(Absent)), 1), 1),
       error(List_init(Smin3), "custom"),
       Tuple_init(<<Smin3, Number_init>>, Absent),
       Tuple_init(<<Smin3>>, Number_init),
       Tuple_max(Tuple_min(Tuple_init(<<Supper>>, Smin3), 1), 2),
       Dict_max_properties(Dict_min_properties(
           Dict_init(<<Field(KA, Smin3), Field(KAB, Number_init)>>), 1), 2),
       Dict_pattern_property(Dict_init(<<Field(KAB, String_init)>>), KA, Supper),
       Dict_pattern_property(Dict_pattern_property(Dict_init(<<>>), KA, Smin3), KAB, Supper),
       Dict_additional_properties(Dict_init(<<Field(KA, optional(Smin3))>>),
                                  AddValidator(Smin3)),
       Dict_additional_properties(
           Dict_required(Dict_init(<<Field(KA, Smin3)>>), {}), AddFalse),
       Dict_additional_properties(
           Dict_pattern_property(Dict_init(<<>>), KAB, Number_init), AddValidator(Smin3)),
       Object_init(<<Field(KA, Smin3), Field(KAB, optional(Supper))>>),
       Union_init(<<Smin3, Number_init>>, <<>>),
       Union_init(<<Supper, String_init>>, <<>>),
       Union_init(<<>>, <<>>),
       Dict_additional_properties(Dict_init(<<>>), AddValidator(Smin3)),
       Union_discriminator_mapping(
           Union_init(<<Dict_init(<<Field(KA, String_init)>>)>>, KA),
           <<[value |-> S3,
              val |-> Dict_init(<<Field(KA, Smin3), Field(KAB, Number_init)>>)]>>),
       List_init(error(List_init(Smin3), "custom")),
       List_init(default_optional(Smin3, DefaultValue(S2))),
       Dict_init(<<Field(KA, Smin3),
                   Field(KAB, default_optional(String_init, DefaultValue(S2)))>>),
       List_unique(List_init(Supper)),
       List_init(List_init(Supper)) >>

Elems == {S2, S3, I1, None, PyList(<<S2>>)}
DictVals == {S2, S3, I1}

SeqsUpTo(S, n) == UNION {[1..k -> S] : k \in 0..n}
Injective(s) == \A i, j \in 1..Len(s) : i # j => s[i] # s[j]

\* lists of strings that differ in case only, or not at all
CaseInputs == {PyList(<<S2, S2U>>), PyList(<<S2U, S2U>>)}

SeqInputs == {PyList(s) : s \in SeqsUpTo(Elems, MaxItems)}
                \cup {PyTuple(s) : s \in SeqsUpTo(Elems, MaxItems)}
                \cup CaseInputs
KeySeqs == {ks \in SeqsUpTo(Keys, MaxKeys) : Injective(ks)}
DictInputs == UNION {{PyDict(ks, vs) : vs \in [1..Len(ks) -> DictVals]} : ks \in KeySeqs}
Perms == {p \in [1..Cardinality(Keys) -> Keys] : Injective(p)}

\* the inputs tried on a validator: None, a value of a wrong type, and the
\* values of the type it is for
Inputs(v) ==
    CASE v.kind \in {"List", "Tuple"} -> SeqInputs \cup {None, I1}
      [] v.kind \in {"Dict", "Object"} -> DictInputs \cup {None, I1}
      [] v.kind = "Union" /\ v.discriminator # <<>> ->
            DictInputs \cup {None, I1, PyDict(<<KA>>, <<PyList(<<S3>>)>>)}
      [] OTHER -> {None, S2, S3, I1, PyList(<<S3>>)}

(***************************************************************************)
(* Validator instances.  A builder works on instances: _clone copies the   *)
(* attribute table of an instance, so a clone holds the very dicts and     *)
(* sets of its original until an attribute is bound to another one.  An    *)
(* instance is kept as its attributes, with the identity of a container    *)
(* (a cell) for _schema, _pattern_properties and _required_keys and the    *)
(* identity of the Dict instance for an Object's _dict_validator.          *)
(***************************************************************************)
EmptyHeap == [objs |-> <<>>, cells |-> <<>>, made |-> <<>>]

\* how an instance came to be: the method, the receiver and the argument
How(op, self, arg) == [op |-> op, self |-> self, arg |-> arg]
Part == How("part", 0, <<>>)

\* object.__new__ / __init__: one more instance
Alloc(h, o, how) == [h EXCEPT !.objs = Append(@, o), !.made = Append(@, how)]

\* Dict.__init__: the schema, and a fresh dict and set for rules and required keys
NewDict(h, d, how) ==
    LET n == Len(h.cells) IN
    Alloc([h EXCEPT !.cells = @ \o <<d.schema, d.patterns, d.required>>],
          [d EXCEPT !.schema = n + 1, !.patterns = n + 2, !.required = n + 3], how)

\* Object.__init__: self._dict_validator = DictValidator(schema)
NewObject(h, o, how) ==
    LET h1 == NewDict(h, o.dict, Part) IN
    Alloc(h1, [o EXCEPT !.dict = Len(h1.objs)], how)

\* the instance of a validator written as a constructor expression
New(h, v, how) ==
    CASE v.kind = "Dict" -> NewDict(h, v, how)
      [] v.kind = "Object" -> NewObject(h, v, how)
      [] OTHER -> Alloc(h, v, how)

\* the configuration of an instance: its attributes with the containers' contents
DerefDict(h, o) ==
    [o EXCEPT !.schema = h.cells[@], !.patterns = h.cells[@], !.required = h.cells[@]]
Deref(h, i) ==
    CASE h.objs[i].kind = "Dict" -> DerefDict(h, h.objs[i])
      [] h.objs[i].kind = "Object" ->
            [h.objs[i] EXCEPT !.dict = DerefDict(h, h.objs[@])]
      [] OTHER -> h.objs[i]

\* a variant of _clone that hands out the receiver itself
Clone_self(h, i, how) == [h |-> h, ref |-> i]

\* Validator._clone: a new instance of the class with a copy of __dict__
Clone(h, i, how) == [h |-> Alloc(h, h.objs[i], how), ref |-> Len(h.objs) + 1]

\* validator.<attr> = val
SetAttr(h, i, attr, val) ==
    [h EXCEPT !.objs[i] = [a \in DOMAIN @ \cup {attr} |-> IF a = attr THEN val ELSE @[a]]]

\* a builder: validator = self._clone(); validator.<attr> = val; return validator
Built(h, self, how, attr, val) ==
    LET c == Clone(h, self, how) IN [h |-> SetAttr(c.h, c.ref, attr, val), ref |-> c.ref]

\* a builder that binds the attribute to a new dict or set: dict(...), set(keys)
BuiltContainer(h, self, how, attr, content) ==
    LET c == Clone(h, self, how) IN
    [h |-> SetAttr([c.h EXCEPT !.cells = Append(@, content)], c.ref, attr, Len(h.cells) + 1),
     ref |-> c.ref]

\* no builder call yet
NoCall == [n |-> 0, op |-> "", self |-> 0, arg |-> <<>>, new |-> 0, before |-> EmptyHeap]

Idle ==
    /\ heap = EmptyHeap
    /\ last = NoCall
    /\ other = NoOther
    /\ report = NoReport
    /\ input = None
    /\ pc = "idle"
    /\ mode = ""
    /\ x = None
    /\ outcome = NoOutcome
    /\ log = <<>>
    /\ tasks = <<>>
    /\ result = <<>>
    /\ cur = 0
    /\ counter = 0

Init ==
    /\ \E i \in 1..Len(Catalogue) : V = Catalogue[i]
    /\ perm \in Perms
    /\ Idle

Run ==
    \/ CreateTask
    \/ Proceed
    \/ \E i \in 1..Len(tasks) : TaskRun(i)
    \/ ResumeGather
    \/ ResumeSeq
    \/ FinishSeq
    \/ Return

Next ==
    \/ \E d \in Inputs(V) : Validate(d)
    \/ \E d \in Inputs(V) : ValidateAsync(d)
    \/ Run

Spec == Init /\ [][Next]_vars

(***************************************************************************)
(* The contract specification: a validator of any kind, configured by the  *)
(* builder methods of the base class, then called.                         *)
(***************************************************************************)
Kinds ==
    << String_init, Number_init, Any_init, Null_init,
       List_init(Smin3),
       Dict_init(<<Field(KA, Smin3)>>),
       Tuple_init(<<Smin3>>, Absent),
       Union_init(<<Smin3, Number_init>>, <<>>),
       Object_init(<<Field(KA, Smin3)>>) >>

Defaults == {DefaultValue(S2), DefaultProducer}

ContractInputs == {None, S3, I1, PyList(<<S3>>), PyList(<<S2>>), PyDict(<<KA>>, <<S3>>)}

Optional ==
    /\ pc = "idle"
    /\ V' = optional(V)
    /\ UNCHANGED <<pc, mode, x, outcome, log, tasks, result, cur, counter, perm, heap, last, other, report, input>>

Nullable ==
    /\ pc = "idle"
    /\ V' = nullable(V)
    /\ UNCHANGED <<pc, mode, x, outcome, log, tasks, result, cur, counter, perm, heap, last, other, report, input>>

Default(d) ==
    /\ pc = "idle"
    /\ V' = default(V, d)
    /\ UNCHANGED <<pc, mode, x, outcome, log, tasks, result, cur, counter, perm, heap, last, other, report, input>>

DefaultOptional(d) ==
    /\ pc = "idle"
    /\ V' = default_optional(V, d)
    /\ UNCHANGED <<pc, mode, x, outcome, log, tasks, result, cur, counter, perm, heap, last, other, report, input>>

Error ==
    /\ pc = "idle"
    /\ V' = error(V, "custom")
    /\ UNCHANGED <<pc, mode, x, outcome, log, tasks, result, cur, counter, perm, heap, last, other, report, input>>

InitContract ==
    /\ \E i \in 1..Len(Kinds) : V = Kinds[i]
    /\ perm \in Perms
    /\ Idle

NextContract ==
    \/ Optional
    \/ Nullable
    \/ \E d \in Defaults : Default(d)
    \/ \E d \in Defaults : DefaultOptional(d)
    \/ Error
    \/ \E d \in ContractInputs : Validate(d)
    \/ \E d \in ContractInputs : ValidateAsync(d)
    \/ Run

SpecContract == InitContract /\ [][NextContract]_vars

(***************************************************************************)
(* The specification of calls that overlap: while validate_async on V is   *)
(* suspended at an await, the event loop runs another caller, which makes  *)
(* a call on the same instance.                                            *)
(***************************************************************************)
\* a variant of the call that remembers on the instance that it was called
Interleaved_stateful(d) ==
    /\ pc \notin {"idle", "done"}
    /\ other = NoOther
    /\ other' = [x |-> d, out |-> validate(V, d, counter).out]
    /\ V' = [V EXCEPT !.nullable = TRUE]
    /\ input' = IF d = x THEN Seen("sync", V, input) ELSE input
    /\ UNCHANGED <<pc, mode, x, outcome, log, tasks, result, cur, counter, perm, heap, last, report>>

\* Validator.validate, called by another caller while V's validate_async is
\* suspended: _validate reads the attributes of V and works on locals
Interleaved(d) ==
    /\ pc \notin {"idle", "done"}
    /\ other = NoOther
    /\ other' = [x |-> d, out |-> validate(V, d, counter).out]
    /\ input' = IF d = x THEN Seen("sync", V, input) ELSE input
    /\ UNCHANGED <<V, pc, mode, x, outcome, log, tasks, result, cur, counter, perm, heap, last, report>>

Overlapped ==
    << List_init(Supper),
       Tuple_init(<<Smin3>>, Number_init),
       Dict_additional_properties(Dict_init(<<Field(KA, optional(Smin3))>>),
                                  AddValidator(Smin3)),
       Union_init(<<Supper, String_init>>, <<>>),
       default(String_init, DefaultProducer) >>

InitCalls ==
    /\ \E i \in 1..Len(Overlapped) : V = Overlapped[i]
    /\ perm \in Perms
    /\ Idle

NextCalls ==
    \/ \E d \in Inputs(V) : Validate(d)
    \/ \E d \in Inputs(V) : ValidateAsync(d)
    \/ Run
    \/ \E d \in {x, I1} : Interleaved(d)

SpecCalls == InitCalls /\ [][NextCalls]_vars

(***************************************************************************)
(* The builder specification: instances are made by constructors and by    *)
(* the builder methods of Validator, String, Dict and Object, each called  *)
(* on any instance made so far.                                            *)
(***************************************************************************)
MaxOps == 2         \* builder calls in one run

KB == <<"b">>
ObjKeys == <<KA, KAB, KB>>

Bases ==
    << String_init,
       Dict_init(<<Field(KA, Smin3)>>),
       Object_init(<<Field(KA, Smin3), Field(KAB, Number_init)>>),
       Object_exclude(Object_init(<<Field(KA, Smin3), Field(KAB, Number_init)>>), {KA}),
       error(default_optional(Object_init(<<Field(KA, Smin3)>>), DefaultValue(S2)), "custom") >>

\* the instances a program holds: those it made, not an Object's inner Dict
Held(h) == {i \in 1..Len(h.objs) : h.made[i] # Part}

CanCall(self) == last.n < MaxOps /\ self \in Held(heap)

\* the call returned the instance b.ref of the heap b.h
Returned(how, b) ==
    /\ heap' = b.h
    /\ last' = [n |-> last.n + 1, op |-> how.op, self |-> how.self, arg |-> how.arg,
                new |-> b.ref, before |-> heap]
    /\ UNCHANGED <<V, pc, mode, x, outcome, log, tasks, result, cur, counter, perm, other, report, input>>

\* the call raised ValueError
Raised(how) ==
    /\ last' = [n |-> last.n + 1, op |-> how.op, self |-> how.self, arg |-> how.arg,
                new |-> 0, before |-> heap]
    /\ UNCHANGED <<V, pc, mode, x, outcome, log, tasks, result, cur, counter, perm, heap, other, report, input>>

\* Validator.optional
CallOptional(self) ==
    /\ CanCall(self)
    /\ Returned(How("optional", self, <<>>),
                Built(heap, self, How("optional", self, <<>>), "optional", TRUE))

\* Validator.nullable
CallNullable(self) ==
    /\ CanCall(self)
    /\ Returned(How("nullable", self, <<>>),
                Built(heap, self, How("nullable", self, <<>>), "nullable", TRUE))

\* Validator.default of sift/validators/base.py
CallDefault(self, d) ==
    /\ CanCall(self)
    /\ Returned(How("default", self, d), Built(heap, self, How("default", self, d), "default", d))

\* Validator.default of voltar/validators/base.py: _default, then _optional = True
CallDefaultOptional(self, d) ==
    /\ CanCall(self)
    /\ LET b == Built(heap, self, How("default_optional", self, d), "default", d) IN
       Returned(How("default_optional", self, d),
                [h |-> SetAttr(b.h, b.ref, "optional", TRUE), ref |-> b.ref])

\* Validator.error
CallError(self, m) ==
    /\ CanCall(self)
    /\ Returned(How("error", self, m), Built(heap, self, How("error", self, m), "custom", m))

\* String.min
CallMin(self, n) ==
    /\ CanCall(self)
    /\ heap.objs[self].kind = "String"
    /\ Returned(How("min", self, n), Built(heap, self, How("min", self, n), "min_length", n))

\* Dict.max_properties
CallMax(self, n) ==
    /\ CanCall(self)
    /\ heap.objs[self].kind = "Dict"
    /\ Returned(How("max", self, n), Built(heap, self, How("max", self, n), "max_properties", n))

\* Dict.required: validator._required_keys = set(keys)
CallRequired(self, keys) ==
    /\ CanCall(self)
    /\ heap.objs[self].kind = "Dict"
    /\ Returned(How("required", self, keys),
                BuiltContainer(heap, self, How("required", self, keys), "required",
                               Dict_required(Deref(heap, self), keys).required))

\* Dict.pattern_property: a dict() of the rules with the new rule, bound to the clone
CallPatternProperty(self, pat, val) ==
    /\ CanCall(self)
    /\ heap.objs[self].kind = "Dict"
    /\ Returned(How("pattern_property", self, <<pat, val>>),
                BuiltContainer(heap, self, How("pattern_property", self, <<pat, val>>), "patterns",
                               Dict_pattern_property(Deref(heap, self), pat, val).patterns))

\* Object.extend: ValueError for a colliding key, else a newly constructed Object
CallExtend(self, add) ==
    /\ CanCall(self)
    /\ heap.objs[self].kind = "Object"
    /\ LET extended == Object_extend(Deref(heap, self), add) IN
       IF extended = ValueError THEN Raised(How("extend", self, add))
       ELSE Returned(How("extend", self, add),
                     [h |-> New(heap, extended, How("extend", self, add)),
                      ref |-> Len(heap.objs) + 2])

\* a variant of exclude that returns the clone as it is
Excluding_unbound(h, self, how, fields) == Clone(h, self, how)

\* Object.exclude lines 122-124: a clone of the Object, bound to what
\* Dict.exclude returns, a clone of the Dict validator that holds the fields
Excluding(h, self, how, fields) ==
    LET c == Clone(h, self, how)
        d == Clone(c.h, h.objs[self].dict, Part)
    IN [h |-> SetAttr(SetAttr(d.h, d.ref, "excluded",
                              Dict_exclude(h.objs[h.objs[self].dict], fields).excluded),
                      c.ref, "dict", d.ref),
        ref |-> c.ref]

\* Object.exclude
CallExclude(self, fields) ==
    /\ CanCall(self)
    /\ heap.objs[self].kind = "Object"
    /\ Returned(How("exclude", self, fields),
                Excluding(heap, self, How("exclude", self, fields), fields))

\* Object.omit: a newly constructed Object
CallOmit(self, fields) ==
    /\ CanCall(self)
    /\ heap.objs[self].kind = "Object"
    /\ Returned(How("omit", self, fields),
                [h |-> New(heap, Object_omit(Deref(heap, self), fields), How("omit", self, fields)),
                 ref |-> Len(heap.objs) + 2])

Adds == {<<Field(ObjKeys[i], Smin3)>> : i \in 1..Len(ObjKeys)}
FieldSets == {{ObjKeys[i]} : i \in 1..Len(ObjKeys)}

InitBuilders ==
    /\ \E i \in 1..Len(Bases) :
          /\ V = Bases[i]
          /\ heap = New(EmptyHeap, Bases[i], How("init", 0, <<>>))
    /\ last = NoCall
    /\ other = NoOther
    /\ report = NoReport
    /\ input = None
    /\ perm = AllKeys
    /\ pc = "idle" /\ mode = "" /\ x = None /\ outcome = NoOutcome /\ log = <<>>
    /\ tasks = <<>> /\ result = <<>> /\ cur = 0 /\ counter = 0

NextBuilders ==
    \E self \in 1..Len(heap.objs) :
        \/ CallOptional(self)
        \/ CallNullable(self)
        \/ CallDefault(self, DefaultValue(S2))
        \/ CallDefaultOptional(self, DefaultValue(S2))
        \/ CallError(self, "custom")
        \/ CallMin(self, 3)
        \/ CallMax(self, 1)
        \/ CallRequired(self, {})
        \/ CallPatternProperty(self, KA, Supper)
        \/ \E add \in Adds : CallExtend(self, add)
        \/ \E fields \in FieldSets : CallExclude(self, fields)
        \/ \E fields \in FieldSets : CallOmit(self, fields)

SpecBuilders == InitBuilders /\ [][NextBuilders]_vars

(***************************************************************************)
(* C1.  validate(None) follows the precedence default, nullable, optional, *)
(* required.                                                               *)
(***************************************************************************)
NoneCall == pc = "done" /\ mode = "sync" /\ IsNone(x)

\* what the precedence of the contract gives for None on the validator V
ByPrecedence ==
    IF V.default.t = "value" THEN outcome = Ok(V.default.v)
    ELSE IF V.default.t = "producer" THEN outcome = Ok(Produced(counter))
    ELSE IF V.nullable \/ V.kind \in {"Any", "Null"} THEN outcome = Ok(None)
    ELSE IF V.optional THEN outcome = Ok(None)
    ELSE /\ ~outcome.ok
         /\ outcome.path = <<>>
         /\ outcome.msg = Msg(IF V.custom = NoCustom THEN "Value is required" ELSE V.custom)

\* C1 as claimed: for every validator kind, validate(None) returns the default
\* if one is configured, else None if nullable, else None if optional, else
\* raises 'Value is required'
C1_EveryKind == NoneCall => ByPrecedence

\* C1 amended: the precedence holds for every kind except Null, and
\* Null.validate(None) returns None whether or not a default is configured
C1_Precedence ==
    NoneCall => IF V.kind = "Null" THEN outcome = Ok(None) ELSE ByPrecedence

\* C1 witness: a List with a default producer that is also nullable and
\* optional answered None with the value of the second call of its producer
C1_Witness ==
    /\ NoneCall
    /\ V.kind = "List"
    /\ V.default.t = "producer"
    /\ V.nullable
    /\ V.optional
    /\ outcome = Ok(Produced(2))

(***************************************************************************)
(* What the claims below read off a finished call.                         *)
(***************************************************************************)
SyncDone == pc = "done" /\ mode = "sync"
AsyncDone == pc = "done" /\ mode = "async"

\* the call reached the children of the composite V: x is not None and
\* passed the checks made before the children
ChildrenReached ==
    /\ IsComposite(V)
    /\ ~IsNone(x)
    /\ Precheck(Composite(V), x) = NoOutcome
    /\ ~(V.kind = "Union" /\ (Union_unhashable(V, x) \/ IsValidator(Union_mapped(V, x))))

\* the children of the call in creation order, and what each child answers
\* for the item or value of the input it is given
Planned == TaskSteps(Composite(V), x)
ChildOut(i) == TaskOutcome(Composite(V), x, Planned[i], <<>>)
Failing == {i \in 1..Len(Planned) : ~ChildOut(i).ok}

(***************************************************************************)
(* C2.  A successful validate(x) and validate_async(x) give equal results. *)
(***************************************************************************)
\* the number of producer calls made before the asynchronous call
CallsBefore == IF CallsProducer(V, x, "async") THEN counter - 1 ELSE counter

\* C2 as claimed: whenever V.validate(x) succeeds with r, a finished
\* V.validate_async(x) has succeeded with a value equal to r
C2_SyncAsyncEqual ==
    AsyncDone /\ validate(V, x, CallsBefore).out.ok
        => outcome = validate(V, x, CallsBefore).out

(***************************************************************************)
(* C3.  The failure reported is that of the earliest failing child in      *)
(* declaration order.                                                      *)
(***************************************************************************)
\* declaration order: positions and candidates by index; Dict keys by schema
\* order, then by pattern rule, then the additional keys as the input has them
Rank(i) == IF Planned[i].stage = "additional" THEN Len(Planned) + Planned[i].slot ELSE i
Earliest == CHOOSE i \in Failing : \A j \in Failing : Rank(i) <= Rank(j)

\* validate_async of List, Tuple, Dict: the earliest failing child is reported
C3_Async ==
    AsyncDone /\ ChildrenReached /\ V.kind # "Union" /\ Failing # {}
        => outcome = wrap_error(V, ChildOut(Earliest))

\* validate_async of Union: the first succeeding candidate in declared order,
\* else the failures of all candidates, listed in declared order
C3_Union ==
    AsyncDone /\ ChildrenReached /\ V.kind = "Union"
        => outcome = Wrapped(V, Union_finish(V, [i \in 1..Len(Planned) |-> ChildOut(i)], <<>>))

\* validate of List and Tuple: the lowest failing index is reported
C3_SyncSeq ==
    SyncDone /\ ChildrenReached /\ V.kind \in {"List", "Tuple"} /\ Failing # {}
        => outcome = wrap_error(V, ChildOut(Earliest))

\* validate of Dict: a failure of an additional key is that of the first
\* failing additional key of the input
C3_SyncDict ==
    /\ SyncDone /\ ChildrenReached /\ Composite(V).kind = "Dict"
    /\ log # <<>> /\ ~log[Len(log)].ok /\ log[Len(log)].stage = "additional"
    => \A i \in Failing :
          Planned[i].stage = "additional"
              => Slot(x.keys, log[Len(log)].path[1].key) <= Planned[i].slot

\* C3 as claimed: for List, Tuple, Dict and Union the failure reported is, in
\* every run and for every completion order, that of the earliest failing
\* position, key or candidate in declaration order
C3_DeclaredOrder == C3_Async /\ C3_Union /\ C3_SyncSeq /\ C3_SyncDict

(***************************************************************************)
(* C4.  List.validate_async gathers all item subtasks before it reports.   *)
(***************************************************************************)
ListAsync == V.kind = "List" /\ mode = "async" /\ ChildrenReached /\ IsValidator(V.item)

\* C4: List.validate_async has one subtask per item, reports nothing until
\* every subtask is done, then raises the failure of the lowest failing index,
\* or returns each item's validated value at the item's own index
C4_GatherAll ==
    ListAsync =>
      /\ pc \in {"create", "gather"} => outcome = NoOutcome
      /\ pc \in {"gather", "done"} =>
            /\ Len(tasks) = Len(x.items)
            /\ \A i \in 1..Len(tasks) : tasks[i].seg = Idx(i - 1) /\ tasks[i].slot = i
      /\ pc = "done" =>
            /\ \A i \in 1..Len(tasks) : tasks[i].done
            /\ LET failed == {i \in 1..Len(tasks) : ~tasks[i].out.ok} IN
               IF failed # {}
               THEN \E i \in failed :
                       /\ \A j \in failed : i <= j
                       /\ outcome = wrap_error(V, tasks[i].out)
               ELSE outcome = Ok(PyList([i \in 1..Len(tasks) |-> tasks[i].out.val]))

\* C4 witness: both items of a list failed, the second finished, and the
\* failure of index 0 was raised
C4_Witness ==
    /\ ListAsync /\ pc = "done"
    /\ Len(tasks) = 2
    /\ ~tasks[1].out.ok /\ ~tasks[2].out.ok
    /\ tasks[1].out # tasks[2].out
    /\ outcome.path = <<Idx(0)>>

(***************************************************************************)
(* C5.  Every child subtask is created before the composite awaits.        *)
(***************************************************************************)
SchemaKeysPresent ==
    {k \in SeqSet(x.keys) : \E i \in 1..Len(Composite(V).schema) : Composite(V).schema[i].key = k}

\* C5: in validate_async of List, Tuple and Dict no subtask runs while the
\* composite still creates subtasks, and when the composite is at an await
\* there is a subtask for every item, every position, every schema key present
C5_CreatedBeforeAwait ==
    mode = "async" /\ ChildrenReached /\ V.kind # "Union" =>
      /\ pc = "create" => \A i \in 1..Len(tasks) : ~tasks[i].done
      /\ pc \in {"gather", "seq"} =>
            CASE V.kind = "List" ->
                    Len(tasks) = IF IsValidator(V.item) THEN Len(x.items) ELSE 0
              [] V.kind = "Tuple" -> Len(tasks) = Len(x.items)
              [] OTHER ->
                    Len(SelectSeq(tasks, LAMBDA t : t.stage = "schema"))
                        = Cardinality(SchemaKeysPresent)

\* C5 witness: a Dict is at its first await with the subtasks of two schema
\* keys created and none of them run yet
C5_Witness ==
    /\ mode = "async" /\ pc = "gather" /\ V.kind = "Dict"
    /\ Cardinality(SchemaKeysPresent) = 2
    /\ Len(tasks) = 2
    /\ \A i \in 1..Len(tasks) : ~tasks[i].done

(***************************************************************************)
(* C6.  No subtask is pending when the result or failure is delivered.     *)
(***************************************************************************)
\* C6 as claimed: when validate_async of a composite returns or raises, every
\* subtask it launched has run to completion
C6_NonePending ==
    AsyncDone /\ IsComposite(V) => \A i \in 1..Len(tasks) : tasks[i].done

(***************************************************************************)
(* C7.  validate of List and Tuple: index order, abort at the first        *)
(* failure, the path of the failure.                                       *)
(***************************************************************************)
SeqCall == SyncDone /\ ChildrenReached /\ V.kind \in {"List", "Tuple"}

\* the children were invoked in increasing index order from index 0, every
\* one before the last succeeded, and the call failed exactly when the last
\* child invoked failed; a successful call invoked every child
InIndexOrder ==
    /\ \A i \in 1..Len(log) : log[i].path = <<Idx(i - 1)>>
    /\ \A i \in 1..(Len(log) - 1) : log[i].ok
    /\ IF outcome.ok THEN Len(log) = Len(Planned) /\ \A i \in 1..Len(log) : log[i].ok
       ELSE Len(log) >= 1 /\ ~log[Len(log)].ok /\ Len(log) = Earliest

\* the failing child is a composite, whose failure may lie below its own path
FailedChildIsComposite == IsComposite(Planned[Len(log)].val)

\* C7 as claimed: children are validated in increasing index order, the first
\* failing child aborts the validation with no child of a higher index
\* invoked, and the failure carries path = parent path + [that index]
C7_PathIsIndex ==
    SeqCall => /\ InIndexOrder
               /\ ~outcome.ok => outcome.path = <<Idx(Len(log) - 1)>>

\* C7 amended: the same order and abort; the path of the failure begins with
\* parent path + [that index], and is exactly that when the failing child is
\* not itself a composite
C7_PathBeginsWithIndex ==
    SeqCall => /\ InIndexOrder
               /\ ~outcome.ok =>
                     /\ Len(outcome.path) >= 1
                     /\ outcome.path[1] = Idx(Len(log) - 1)
                     /\ ~FailedChildIsComposite => Len(outcome.path) = 1

\* C7 witness: the first of two items failed, the second was never invoked,
\* and the failure has path [0]
C7_Witness ==
    /\ SeqCall
    /\ Len(x.items) = 2 /\ Len(Planned) = 2
    /\ Len(log) = 1 /\ ~log[1].ok
    /\ ~ChildOut(2).ok
    /\ outcome.path = <<Idx(0)>>

(***************************************************************************)
(* C8.  validate of Dict: the order of its stages.                         *)
(***************************************************************************)
DictCall == SyncDone /\ Composite(V).kind = "Dict" /\ x.ty = "dict"

CountFails ==
    LET c == Composite(V) IN
    \/ c.min_properties # NoInt /\ Len(x.keys) < c.min_properties
    \/ c.max_properties # NoInt /\ Len(x.keys) > c.max_properties

MissingKeys == Composite(V).required \ SeqSet(x.keys)

StageNo(stage) == CASE stage = "schema" -> 1 [] stage = "pattern" -> 2 [] OTHER -> 3

\* C8: the property count is checked first, then the required keys (one
\* failure naming all missing keys), then the schema keys present, the pattern
\* rules, the additional properties; the first failure aborts and no child of
\* a later key or stage is invoked
C8_StageOrder ==
    DictCall =>
      IF CountFails THEN
          /\ ~outcome.ok /\ outcome.path = <<>>
          /\ outcome.msg \in {get_error_message(V, Msg("Object must have at least")),
                              get_error_message(V, Msg("Object must have at most"))}
          /\ log = <<>>
      ELSE IF MissingKeys # {} THEN
          /\ outcome = ValidationError(get_error_message(V,
                          MsgKeys("Missing required properties", MissingKeys)), <<>>)
          /\ log = <<>>
      ELSE
          /\ \A i, j \in 1..Len(log) :
                i < j => /\ StageNo(log[i].stage) <= StageNo(log[j].stage)
                         /\ log[i].stage = log[j].stage /\ log[i].stage # "additional"
                               => log[i].rule <= log[j].rule
          /\ \A i \in 1..(Len(log) - 1) : log[i].ok
          /\ outcome.ok => \A i \in 1..Len(log) : log[i].ok
          /\ ~outcome.ok /\ outcome.path # <<>> =>
                /\ log # <<>> /\ ~log[Len(log)].ok
                /\ outcome.path[1] = log[Len(log)].path[1]

\* C8 witness: the first schema key failed and the second schema key of the
\* input was never validated
C8_Witness ==
    /\ DictCall /\ ~CountFails /\ MissingKeys = {}
    /\ Cardinality(SchemaKeysPresent) = 2
    /\ Len(log) = 1 /\ ~log[1].ok /\ log[1].stage = "schema"
    /\ outcome.path = log[1].path

(***************************************************************************)
(* C9, C10.  Which validators a key of a Dict is validated against.        *)
(***************************************************************************)
DictDone == pc = "done" /\ ChildrenReached /\ Composite(V).kind = "Dict"

\* the child validations of the call: the invocations of validate, the
\* subtasks of validate_async
Invoked ==
    IF mode = "sync"
    THEN {[key |-> log[i].path[1].key, stage |-> log[i].stage, rule |-> log[i].rule] :
              i \in 1..Len(log)}
    ELSE {[key |-> tasks[i].seg.key, stage |-> tasks[i].stage, rule |-> tasks[i].rule] :
              i \in 1..Len(tasks)}

HasSchemaEntry(k) == \E i \in 1..Len(Composite(V).schema) : Composite(V).schema[i].key = k
MatchingRules(k) ==
    {r \in 1..Len(Composite(V).patterns) : Match(Composite(V).patterns[r].pat, k)}

\* C9 as claimed: in validate and validate_async alike a key with a schema
\* entry is validated against the schema entry only, a key matching only a
\* pattern rule against that rule, a key matching neither as an additional
\* property
C9_SchemaWins ==
    DictDone =>
      /\ \A e \in Invoked :
            IF HasSchemaEntry(e.key) THEN e.stage = "schema"
            ELSE IF MatchingRules(e.key) # {}
                 THEN e.stage = "pattern" /\ e.rule \in MatchingRules(e.key)
                 ELSE e.stage = "additional"
      /\ outcome.ok => \A k \in SeqSet(x.keys) :
            \/ \E e \in Invoked : e.key = k
            \/ ~HasSchemaEntry(k) /\ MatchingRules(k) = {}
                  /\ Composite(V).additional.t # "validator"

\* C10 as claimed: in validate and validate_async alike a key with no schema
\* entry is validated once against every pattern rule it matches
C10_EveryMatchingRule ==
    DictDone /\ outcome.ok =>
        \A k \in SeqSet(x.keys) :
            ~HasSchemaEntry(k) =>
                \A r \in MatchingRules(k) :
                    [key |-> k, stage |-> "pattern", rule |-> r] \in Invoked

(***************************************************************************)
(* C11.  Union without an applicable discriminator mapping.                *)
(***************************************************************************)
UnionCall == pc = "done" /\ V.kind = "Union" /\ ChildrenReached

\* what candidate i answers for the input, and the candidates that accept it
CandOut(i) == validate_(V.validators[i], x, <<>>).out
Accepting == {i \in 1..Len(V.validators) : CandOut(i).ok}

\* C11: validate and validate_async of a Union return the result of the first
\* candidate in declared order that accepts the input, whatever the order in
\* which the candidate subtasks complete; if none accepts, one failure is
\* raised at the Union's own path with one 'Option i' entry per candidate, for
\* i = 1..N in declared order; validate tries the candidates in order and
\* stops at the first that accepts
C11_FirstAccepting ==
    UnionCall /\ V.custom = NoCustom =>
      /\ IF Accepting # {}
         THEN \E i \in Accepting : (\A j \in Accepting : i <= j) /\ outcome = CandOut(i)
         ELSE /\ ~outcome.ok
              /\ outcome.path = <<>>
              /\ outcome.msg.m = "Value does not match any of the expected types"
              /\ Len(outcome.msg.opts) = Len(V.validators)
              /\ \A i \in 1..Len(V.validators) :
                    /\ outcome.msg.opts[i].opt = i
                    /\ outcome.msg.opts[i].msg = CandOut(i).msg
                    /\ outcome.msg.opts[i].path = CandOut(i).path
      /\ mode = "sync" =>
            /\ \A i \in 1..Len(log) : log[i].rule = i /\ log[i].ok = CandOut(i).ok
            /\ \A i \in 1..(Len(log) - 1) : ~log[i].ok
            /\ outcome.ok <=> (log # <<>> /\ log[Len(log)].ok)
            /\ ~outcome.ok => Len(log) = Len(V.validators)
      /\ mode = "async" =>
            /\ Len(tasks) = Len(V.validators)
            /\ \A i \in 1..Len(tasks) : tasks[i].done /\ tasks[i].out = CandOut(i)

\* C11 witness: two candidates accepted the input with different results and
\* validate_async returned the result of the first
C11_Witness ==
    /\ UnionCall /\ mode = "async"
    /\ Cardinality(Accepting) = 2
    /\ CandOut(1) # CandOut(2)
    /\ outcome = CandOut(1)

\* a second C11 case reached: no candidate of two accepted and the failure
\* lists both
C11_WitnessAllFail ==
    /\ UnionCall /\ mode = "sync"
    /\ Len(V.validators) = 2 /\ Accepting = {}
    /\ Len(outcome.msg.opts) = 2

(***************************************************************************)
(* C12.  Union with a discriminator.                                       *)
(***************************************************************************)
DiscriminatedCall == pc = "done" /\ V.kind = "Union" /\ V.discriminator # <<>> /\ ~IsNone(x)

\* the input is a map that has the discriminator key, and the validators
\* registered for the value under it
HasDiscriminator == x.ty = "dict" /\ HasKey(x.keys, V.discriminator)
Registered ==
    IF HasDiscriminator
    THEN {i \in 1..Len(V.discriminator_map) :
             V.discriminator_map[i].value = x.vals[Slot(x.keys, V.discriminator)]}
    ELSE {}

\* the outcome of the undiscriminated mode: the first accepting candidate,
\* else the failure listing every candidate
AsUndiscriminated ==
    IF Accepting # {}
    THEN \E i \in Accepting : (\A j \in Accepting : i <= j) /\ outcome = CandOut(i)
    ELSE /\ IsValidationError(outcome)
         /\ outcome.path = <<>>
         /\ Len(outcome.msg.opts) = Len(V.validators)

\* the child validations of the call
CandidatesTried ==
    IF mode = "sync" THEN {log[i].rule : i \in {j \in 1..Len(log) : log[j].stage = "candidate"}}
    ELSE {tasks[i].rule : i \in 1..Len(tasks)}

\* C12 as claimed: when the input is a map with the discriminator key and the
\* value under it has a registered mapping, only the mapped validator is
\* invoked and its result or failure is the outcome; when the key is absent or
\* its value is unmapped, every candidate is tried as in the undiscriminated
\* mode
C12_Discriminator ==
    DiscriminatedCall =>
        IF Registered # {}
        THEN /\ CandidatesTried = {}
             /\ \E i \in Registered :
                   outcome = IF mode = "sync"
                             THEN validate_(V.discriminator_map[i].val, x, <<>>).out
                             ELSE validate_async_(V.discriminator_map[i].val, x, <<>>)
        ELSE /\ AsUndiscriminated
             /\ ~outcome.ok => CandidatesTried = 1..Len(V.validators)

(***************************************************************************)
(* C13.  A builder returns a new validator and leaves its receiver as it   *)
(* was.                                                                    *)
(***************************************************************************)
\* the attributes in which two configurations differ
Diff(a, b) ==
    {f \in DOMAIN a \cup DOMAIN b : f \notin DOMAIN a \/ f \notin DOMAIN b \/ a[f] # b[f]}

\* the last call returned an instance
HasReturned == last.n > 0 /\ last.new # 0
\* the receiver before the call, the result after it
Receiver == Deref(last.before, last.self)
Result == Deref(heap, last.new)

BuilderInputs == {None, S2, S3, I1, PyDict(<<KA>>, <<S2>>), PyDict(<<KA>>, <<S3>>),
                  PyDict(<<KA, KAB>>, <<S3, I1>>)}

\* the result is an instance that did not exist, and every instance that
\* existed has the configuration and the behaviour it had
NewAndUnchanged ==
    /\ last.new \notin 1..Len(last.before.objs)
    /\ \A i \in 1..Len(last.before.objs) :
          /\ Deref(heap, i) = Deref(last.before, i)
          /\ \A d \in BuilderInputs :
                validate(Deref(heap, i), d, 0) = validate(Deref(last.before, i), d, 0)

\* the attributes a contract builder sets, and the values it gives them
Sets(op, arg) ==
    CASE op = "optional" -> [optional |-> TRUE]
      [] op = "nullable" -> [nullable |-> TRUE]
      [] op = "default" -> [default |-> arg]
      [] op = "default_optional" -> [default |-> arg, optional |-> TRUE]
      [] op = "error" -> [custom |-> arg]
ContractBuilders == {"optional", "nullable", "default", "default_optional", "error"}

\* C13 (as amended): every builder returns a new validator and leaves every
\* existing validator unchanged in configuration and behaviour; the result of
\* optional(), nullable() and error() differs from the receiver in that one
\* attribute only, the result of default() in the default and, where default()
\* marks the validator optional, in the optional flag, and in nothing else
C13_NewFrame ==
    HasReturned =>
        /\ NewAndUnchanged
        /\ last.op \in ContractBuilders =>
              /\ Diff(Result, Receiver) \subseteq DOMAIN Sets(last.op, last.arg)
              /\ \A f \in DOMAIN Sets(last.op, last.arg) :
                    Result[f] = Sets(last.op, last.arg)[f]

\* C13 witness: default() of voltar returned a validator that differs from its
\* receiver, a clone made earlier that still shares its containers, in the
\* default and in the optional flag
C13_Witness ==
    /\ HasReturned
    /\ last.op = "default_optional"
    /\ last.before.made[last.self].op = "pattern_property"
    /\ Diff(Result, Receiver) = {"default", "optional"}

\* C13 as stated: the result of optional(), nullable(), default() and error()
\* differs from the receiver in one attribute, the one the builder is named for
C13_OneAttribute ==
    HasReturned /\ last.op \in ContractBuilders =>
        Diff(Result, Receiver) \subseteq
            {CASE last.op = "optional" -> "optional"
               [] last.op = "nullable" -> "nullable"
               [] last.op = "error" -> "custom"
               [] OTHER -> "default"}

(***************************************************************************)
(* C14.  Object.extend.                                                    *)
(***************************************************************************)
\* a key the input does not have
Missing == [ty |-> "missing"]
\* the dict inputs over the keys of ObjKeys, each key absent or with a value
ObjInputs ==
    {LET at == SelectSeq([i \in 1..Len(ObjKeys) |-> i], LAMBDA i : f[i] # Missing)
     IN PyDict([j \in 1..Len(at) |-> ObjKeys[at[j]]], [j \in 1..Len(at) |-> f[at[j]]])
       : f \in [1..Len(ObjKeys) -> DictVals \cup {Missing}]}

\* v1 and v2 give the same outcome, value or failure, on every input
SameOutcomes(v1, v2) ==
    \A d \in ObjInputs \cup {None, I1} : validate(v1, d, 0).out = validate(v2, d, 0).out

\* the keys of the fields handed to extend
AddedKeys == {last.arg[i].key : i \in 1..Len(last.arg)}
\* after the call the receiver has the field names and the behaviour it had
ReceiverUnchanged ==
    /\ field_names(Deref(heap, last.self)) = field_names(Receiver)
    /\ SameOutcomes(Deref(heap, last.self), Receiver)

\* C14: extend(newFields) raises ValueError and produces no Object when a key
\* of newFields is a field of the original, and otherwise returns a new Object
\* whose field names are the union of the original's and the keys of newFields;
\* in both cases the original keeps its field names and its behaviour
C14_Extend ==
    last.op = "extend" =>
        /\ IF AddedKeys \cap field_names(Receiver) # {}
           THEN last.new = 0 /\ heap = last.before
           ELSE /\ last.new \notin 1..Len(last.before.objs)
                /\ IsObject(Result)
                /\ field_names(Result) = field_names(Receiver) \cup AddedKeys
        /\ ReceiverUnchanged

\* C14 witness: extend raised for the fields that an earlier extend had added
\* to the Object it returned
C14_Witness ==
    /\ last.op = "extend"
    /\ last.new = 0
    /\ last.before.made[last.self].op = "extend"
    /\ last.before.made[last.self].arg = last.arg

(***************************************************************************)
(* C15.  Object.exclude.                                                   *)
(***************************************************************************)
\* the value the dict d has under key k, Missing when it has none
At(d, k) == IF HasKey(d.keys, k) THEN d.vals[Slot(d.keys, k)] ELSE Missing

\* the failure is about one of the keys: it was raised under the key, or it
\* reports the key as missing
About(out, keys) ==
    \/ out.path # <<>> /\ out.path[1].key \in keys
    \/ "keys" \in DOMAIN out.msg /\ out.msg.m = "Missing required properties"
          /\ out.msg.keys \cap keys # {}

\* validation by v skips the keys: their values come back as they are, no
\* failure is about them, and whether an input passes does not depend on
\* what it holds under them, or on whether it holds them at all
Skips(v, keys) ==
    \A d \in ObjInputs :
        LET out == validate(v, d, 0).out IN
        /\ out.ok => \A k \in keys : At(out.val, k) = At(d, k)
        /\ ~out.ok => ~About(out, keys)
        /\ out.ok = validate(v, KeptData(d, keys), 0).out.ok

EnforcesRequired(v) ==
    \A d \in ObjInputs :
        v.dict.required \ SeqSet(d.keys) # {} =>
            LET out == validate(v, d, 0).out IN
            /\ ~out.ok
            /\ v.custom = NoCustom =>
                  out.msg = MsgKeys("Missing required properties",
                                    v.dict.required \ SeqSet(d.keys))

ExtendThenOmit ==
    /\ last.op = "omit"
    /\ last.new # 0
    /\ heap.made[last.self].op = "extend"
    /\ last.arg = {heap.made[last.self].arg[i].key : i \in 1..Len(heap.made[last.self].arg)}
Base == Deref(heap, heap.made[last.self].self)

\* C17: for an Object base, however it was made, and a key x that is no field
\* of base, base.extend({x: V}).omit([x]) has the field names of base and the
\* outcome of base on every input
C17_ExtendOmit ==
    ExtendThenOmit =>
        /\ field_names(Result) = field_names(Base)
        /\ SameOutcomes(Result, Base)

(***************************************************************************)
(* C18.  Exclusion in derived Objects.                                     *)
(***************************************************************************)
\* the last call is extend, or omit of other keys, on an Object with excluded fields
DerivedFromExcluding ==
    /\ last.op \in {"extend", "omit"}
    /\ last.new # 0
    /\ Excluded(Receiver.dict) # {}
    /\ last.op = "omit" => last.arg \cap Excluded(Receiver.dict) = {}

\* C18: an Object derived by extend, or by omit of other keys, from an Object
\* with excluded fields still skips those fields
C18_StillSkipped ==
    DerivedFromExcluding => Skips(Result, Excluded(Receiver.dict))

(***************************************************************************)
(* C19.  The settings of an extended Object.                               *)
(***************************************************************************)
\* the composer-level settings of an Object
Settings(o) ==
    [additional |-> o.dict.additional, patterns |-> o.dict.patterns,
     min_properties |-> o.dict.min_properties, max_properties |-> o.dict.max_properties,
     required |-> o.dict.required, nullable |-> o.nullable, optional |-> o.optional,
     default |-> o.default, custom |-> o.custom]

\* C19: the Object that extend returns has the settings of the original:
\* additional-properties policy, pattern rules, property-count bounds,
\* required keys, nullable, optional, default and custom error message
C19_SettingsCopied ==
    last.op = "extend" /\ last.new # 0 => Settings(Result) = Settings(Receiver)

\* C19 witness: extend returned for an original with a default, marked
\* optional and with a custom message, whose required keys are not those
\* that a new Object over the extended schema would have
C19_Witness ==
    /\ last.op = "extend" /\ last.new # 0
    /\ Receiver.default # NoDefault /\ Receiver.optional /\ Receiver.custom # NoCustom
    /\ Result.dict.required # Object_init(Result.dict.schema).dict.required

(***************************************************************************)
(* C20.  The custom error message of a node.                               *)
(***************************************************************************)
\* the child that a List, Tuple, Dict or Object validates under a path segment
ChildAt(v, seg) ==
    CASE v.kind = "List" -> v.item
      [] v.kind = "Tuple" /\ seg.idx < Len(v.items) -> v.items[seg.idx + 1]
      [] v.kind = "Tuple" -> v.rest
      [] v.kind \in {"Dict", "Object"} ->
            LET c == Composite(v)
                at == {i \in 1..Len(c.schema) : c.schema[i].key = seg.key}
            IN IF at = {} THEN Absent ELSE c.schema[CHOOSE i \in at : TRUE].val
      [] OTHER -> Absent

RECURSIVE Customs(_, _)
\* the custom messages of the nodes that a failure at the path comes through
Customs(v, path) ==
    (IF v.custom # NoCustom THEN {v.custom} ELSE {})
    \cup (IF path = <<>> \/ ~IsValidator(ChildAt(v, path[1])) THEN {}
          ELSE Customs(ChildAt(v, path[1]), Tail(path)))

RECURSIVE Uncustomed(_)
\* the validator with no custom message on any of its nodes
Uncustomed(v) ==
    IF ~IsValidator(v) THEN v
    ELSE LET u == [v EXCEPT !.custom = NoCustom] IN
         CASE v.kind = "List" -> [u EXCEPT !.item = Uncustomed(@)]
           [] v.kind = "Tuple" ->
                [u EXCEPT !.items = [i \in DOMAIN @ |-> Uncustomed(@[i])],
                          !.rest = Uncustomed(@)]
           [] v.kind = "Dict" ->
                [u EXCEPT !.schema = [i \in DOMAIN @ |-> [@[i] EXCEPT !.val = Uncustomed(@)]],
                          !.patterns = [i \in DOMAIN @ |-> [@[i] EXCEPT !.val = Uncustomed(@)]],
                          !.additional = IF @.t = "validator"
                                         THEN AddValidator(Uncustomed(@.v)) ELSE @]
           [] v.kind = "Object" -> [u EXCEPT !.dict = Uncustomed(@)]
           [] v.kind = "Union" ->
                [u EXCEPT !.validators = [i \in DOMAIN @ |-> Uncustomed(@[i])],
                          !.discriminator_map =
                              [i \in DOMAIN @ |-> [@[i] EXCEPT !.val = Uncustomed(@)]]]
           [] OTHER -> u

\* C20: a failure that surfaces through a node with a custom error message,
\* the root of the call or a node nested in a List, Tuple or Dict, raised by
\* the node or by a descendant of it, carries that message, and its path is
\* the path of the failure raised without custom messages
C20_CustomMessage ==
    pc = "done" /\ IsValidationError(outcome) =>
        /\ \A m \in Customs(V, outcome.path) : outcome.msg = Msg(m)
        /\ mode = "sync" => outcome.path = validate(Uncustomed(V), x, 0).out.path

(***************************************************************************)
(* C21.  None handed to a child.                                           *)
(***************************************************************************)
\* the planned children that are handed None: the item or value of the input
\* at their slot is None
HandedNone ==
    {i \in 1..Len(Planned) :
        /\ Planned[i].stage # "missing"
        /\ Planned[i].slot # 0
        /\ IsNone(WorkingCopy(x)[Planned[i].slot])}

\* C21: a child that is handed None answers by its own None precedence: its
\* default if it has one, None if it is nullable or optional, a failure
\* otherwise
C21_ChildNonePrecedence ==
    pc = "done" /\ ChildrenReached =>
        \A i \in HandedNone :
            LET own == NonePrecedence(Planned[i].val, 0) IN
            IF own.ok THEN ChildOut(i) = own ELSE ~ChildOut(i).ok

(***************************************************************************)
(* C22.  No per-call state on the instance.                                *)
(***************************************************************************)
\* the producer calls made before the current call
Before == IF CallsProducer(V, x, mode) THEN counter - 1 ELSE counter
\* what the current call gives when it is the only call made on V
Alone ==
    IF mode = "sync" THEN validate(V, x, Before).out
    ELSE IF IsNone(x) THEN NonePrecedence(V, Before)
    ELSE Wrapped(V, validate_async_(V, x, <<>>))

\* C22: no step of a call changes the validator or a child of it, and every
\* call, whatever calls were made before it or while it was suspended, ends
\* with the outcome it has when run alone
C22_NoPerCallState ==
    /\ [](pc = "done" => outcome = Alone)
    /\ [][/\ V' = V
          /\ other' # other /\ other' # NoOther =>
                 other'.out = validate(V', other'.x, counter').out]_vars

\* C22 witness: validate_async ended with a transformed value after another
\* call on the same instance, which failed, ran while it was suspended
C22_Witness ==
    /\ AsyncDone
    /\ other # NoOther /\ ~other.out.ok
    /\ outcome.ok /\ outcome.val # x

(***************************************************************************)
(* C23.  A missing key whose field has a default.                          *)
(***************************************************************************)
\* the schema fields of V that have a default value and no key in the input
DefaultedMissing ==
    SelectSeq(Composite(V).schema,
              LAMBDA f : f.val.default.t = "value" /\ ~HasKey(x.keys, f.key))

\* the input with those keys added, each with the default of its field
Filled ==
    PyDict(x.keys \o [i \in 1..Len(DefaultedMissing) |-> DefaultedMissing[i].key],
           x.vals \o [i \in 1..Len(DefaultedMissing) |-> DefaultedMissing[i].val.default.v])

\* C23: when the input of a Dict or Object omits the key of a field that has
\* a default (and is acceptable otherwise), validation succeeds and the map
\* returned holds the key with the default value
C23_DefaultFilled ==
    /\ pc = "done"
    /\ V.kind \in {"Dict", "Object"}
    /\ x.ty = "dict"
    /\ DefaultedMissing # <<>>
    /\ validate(V, Filled, 0).out.ok
    => /\ outcome.ok
       /\ \A i \in 1..Len(DefaultedMissing) :
             At(outcome.val, DefaultedMissing[i].key) = DefaultedMissing[i].val.default.v

(***************************************************************************)
(* C24.  Null with a default.                                              *)
(***************************************************************************)
\* validate was called on a Null validator that has a default
NullWithDefaultCall == SyncDone /\ V.kind = "Null" /\ V.default # NoDefault

\* C24: validate on a Null validator with a default returns None for None,
\* without using the default, and fails for every other input
C24_NullIgnoresDefault ==
    NullWithDefaultCall =>
        IF IsNone(x) THEN outcome = Ok(None) ELSE ~outcome.ok

\* C24 witness: validate(None) on a Null validator with a default value
\* returned None
C24_Witness ==
    /\ NullWithDefaultCall
    /\ V.default = DefaultValue(S2)
    /\ IsNone(x)
    /\ outcome = Ok(None)

(***************************************************************************)
(* The failure report: voltar base.py, class ValidationError.  errors is a *)
(* dict from field string to error data, _issues a list of                 *)
(* ValidationIssue.  A string is a sequence of characters; "→" stands for  *)
(* the separator " → " and "_base" for the root marker.  A dict is the     *)
(* sequence of its items in insertion order.                               *)
(***************************************************************************)
MaxAdds == 2        \* add_error/add_issue calls on one ValidationError

Arrow == "→"
BaseMarker == <<"_base">>

\* the index of the first c in s, 0 when there is none
Find(s, c) ==
    IF \E i \in 1..Len(s) : s[i] = c
    THEN CHOOSE i \in 1..Len(s) : s[i] = c /\ \A j \in 1..(i - 1) : s[j] # c
    ELSE 0

\* str.split(c)
RECURSIVE Split(_, _)
Split(s, c) ==
    IF Find(s, c) = 0 THEN <<s>>
    ELSE <<SubSeq(s, 1, Find(s, c) - 1)>> \o Split(SubSeq(s, Find(s, c) + 1, Len(s)), c)

\* c.join(parts)
RECURSIVE Join(_, _)
Join(parts, c) ==
    IF parts = <<>> THEN <<>>
    ELSE IF Len(parts) = 1 THEN parts[1]
    ELSE parts[1] \o <<c>> \o Join(Tail(parts), c)

\* int(s) succeeds on a string of one digit of the model's alphabet
IsDigit(s) == Len(s) = 1 /\ s[1] \in {"0", "1"}
int(s) == IF s[1] = "0" THEN 0 ELSE 1

\* the parts one legacy segment gives: the indices after the base, "items[0]"
RECURSIVE Indices(_)
Indices(idxs) ==
    IF idxs = <<>> THEN <<>>
    ELSE (IF Find(idxs[1], "]") = 0 THEN <<>>
          ELSE IF IsDigit(Split(idxs[1], "]")[1])
               THEN <<Idx(int(Split(idxs[1], "]")[1]))>>
               ELSE <<Key(Split(idxs[1], "]")[1])>>)
         \o Indices(Tail(idxs))

\* one segment of the legacy dot notation
LegacyPart(part) ==
    IF Find(part, "[") # 0 /\ Find(part, "]") # 0
    THEN (IF Split(part, "[")[1] # <<>> THEN <<Key(Split(part, "[")[1])>> ELSE <<>>)
         \o Indices(Tail(Split(part, "[")))
    ELSE <<Key(part)>>

\* one segment of the arrow format: "[0]" is the integer 0
ArrowPart(part) ==
    IF part # <<>> /\ part[1] = "[" /\ part[Len(part)] = "]"
    THEN Idx(int(SubSeq(part, 2, Len(part) - 1)))
    ELSE Key(part)

RECURSIVE Flatten(_)
Flatten(ss) == IF ss = <<>> THEN <<>> ELSE ss[1] \o Flatten(Tail(ss))

\* ValidationError._parse_field_to_path
parse_field_to_path(field) ==
    IF field = BaseMarker THEN <<>>
    ELSE IF Find(field, Arrow) # 0
    THEN [i \in 1..Len(Split(field, Arrow)) |-> ArrowPart(Split(field, Arrow)[i])]
    ELSE Flatten([i \in 1..Len(Split(field, ".")) |-> LegacyPart(Split(field, ".")[i])])

\* f"[{part}]" for an integer of the model, the part itself for a string
FormatPart(part) ==
    IF "idx" \in DOMAIN part
    THEN <<"[", (IF part.idx = 0 THEN "0" ELSE "1"), "]">>
    ELSE part.key

\* ValidationError._format_path
format_path(path) ==
    IF path = <<>> THEN BaseMarker
    ELSE Join([i \in 1..Len(path) |-> FormatPart(path[i])], Arrow)

\* errors[field] = data: the item of an existing key is replaced in place
setitem(errors, field, data) ==
    IF \E i \in 1..Len(errors) : errors[i].field = field
    THEN [i \in 1..Len(errors) |->
            IF errors[i].field = field THEN [field |-> field, data |-> data]
            ELSE errors[i]]
    ELSE Append(errors, [field |-> field, data |-> data])

\* the error data of one entry; code "" is an entry without the key "code"
ErrorData(message, code) == [message |-> message, code |-> code]
ValidationIssue(code, path, message) == [code |-> code, path |-> path, message |-> message]

\* ValidationError.add_error(field, message, code=code), code "" for None;
\* description, expected and received are not given
add_error(field, message, code) ==
    /\ Len(report.issues) < MaxAdds
    /\ report' =
         [errors |-> setitem(report.errors, field, ErrorData(message, code)),
          issues |-> Append(report.issues,
                            ValidationIssue(IF code = "" THEN "custom" ELSE code,
                                            parse_field_to_path(field), message))]
    /\ UNCHANGED <<V, pc, mode, x, outcome, log, tasks, result, cur, counter, perm, heap, last, other, input>>

\* ValidationError.add_issue(issue), an issue without expected and received
add_issue(issue) ==
    /\ Len(report.issues) < MaxAdds
    /\ report' =
         [errors |-> setitem(report.errors,
                             IF issue.path # <<>> THEN format_path(issue.path) ELSE BaseMarker,
                             ErrorData(issue.message, issue.code)),
          issues |-> Append(report.issues, issue)]
    /\ UNCHANGED <<V, pc, mode, x, outcome, log, tasks, result, cur, counter, perm, heap, last, other, input>>

\* field strings given to add_error: "_base", "a", "a.b", "a → b", "a[0]",
\* "a → [0]"
Fields ==
    { BaseMarker, <<"a">>, <<"a", ".", "b">>, <<"a", Arrow, "b">>,
      <<"a", "[", "0", "]">>, <<"a", Arrow, "[", "0", "]">> }

\* paths of the issues given to add_issue: [], ['a'], ['a', 'b'], ['a', 0], ['_base']
Paths ==
    { <<>>, <<Key(<<"a">>)>>, <<Key(<<"a">>), Key(<<"b">>)>>,
      <<Key(<<"a">>), Idx(0)>>, <<Key(BaseMarker)>> }

Messages == {"m1", "m2"}

\* ValidationError(): no message, no errors, no issues
InitReport ==
    /\ V = String_init
    /\ perm = AllKeys
    /\ Idle

NextReport ==
    \/ \E f \in Fields, m \in Messages, c \in {"", "too_small"} : add_error(f, m, c)
    \/ \E p \in Paths, m \in Messages, c \in {"custom", "too_small"} :
          add_issue(ValidationIssue(c, p, m))

SpecReport == InitReport /\ [][NextReport]_vars

(***************************************************************************)
(* C25.  The entries of a merged failure report.                           *)
(***************************************************************************)
\* the formatted path of the failure added by the i-th call
FormattedPath(i) == format_path(report.issues[i].path)

\* the entries of errors under the formatted path of the i-th call
EntriesAt(i) ==
    {k \in 1..Len(report.errors) : report.errors[k].field = FormattedPath(i)}

\* the most recent call for the path of the i-th call
MostRecent(i) ==
    CHOOSE j \in 1..Len(report.issues) :
        /\ FormattedPath(j) = FormattedPath(i)
        /\ \A k \in (j + 1)..Len(report.issues) : FormattedPath(k) # FormattedPath(i)

\* C25: after any add_error and add_issue calls the entries of errors are
\* keyed by the formatted paths of the failures added: every entry is under the
\* formatted path of one of them, each such path has exactly one entry, and
\* that entry is the one of the most recent call for the path
C25_KeyedByFormattedPath ==
    /\ \A k \in 1..Len(report.errors) :
          \E i \in 1..Len(report.issues) : report.errors[k].field = FormattedPath(i)
    /\ \A i \in 1..Len(report.issues) :
          /\ Cardinality(EntriesAt(i)) = 1
          /\ \A k \in EntriesAt(i) :
                report.errors[k].data.message = report.issues[MostRecent(i)].message

(***************************************************************************)
(* The Tuple specification: a Tuple validator is configured by min() and   *)
(* max() calls, each on the validator the call before returned, and is     *)
(* called between them.                                                    *)
(***************************************************************************)
TupleBases ==
    << Tuple_init(<<Smin3>>, Absent),
       Tuple_init(<<Smin3>>, Number_init) >>

TupleInputs == {PyTuple(s) : s \in SeqsUpTo({S3, I1}, MaxItems)} \cup {I1}

\* the builder call op(n) on V: V becomes the validator returned, and stays
\* the receiver when the call raised ValueError
Configured(op, n, made) ==
    /\ pc = "idle"
    /\ last.n < MaxOps
    /\ V' = IF made = ValueError THEN V ELSE made
    /\ last' = [n |-> last.n + 1, op |-> op, self |-> 0, arg |-> n,
                new |-> IF made = ValueError THEN 0 ELSE 1, before |-> EmptyHeap]
    /\ UNCHANGED <<pc, mode, x, outcome, log, tasks, result, cur, counter, perm, heap, other, report, input>>

\* Tuple.min
CallTupleMin(n) == Configured("min", n, Tuple_min(V, n))

\* Tuple.max
CallTupleMax(n) == Configured("max", n, Tuple_max(V, n))

InitTuples ==
    /\ \E i \in 1..Len(TupleBases) : V = TupleBases[i]
    /\ perm = AllKeys
    /\ Idle

NextTuples ==
    \/ \E n \in {0, 2} : CallTupleMin(n)
    \/ \E n \in {0, 1} : CallTupleMax(n)
    \/ \E d \in TupleInputs : Validate(d)
    \/ \E d \in TupleInputs : ValidateAsync(d)
    \/ CreateTask
    \/ Proceed
    \/ \E i \in 1..Len(tasks) : TaskRun(i)
    \/ ResumeSeq
    \/ FinishSeq
    \/ Return

SpecTuples == InitTuples /\ [][NextTuples]_vars

(***************************************************************************)
(* C26.  The length an input of a Tuple may have.                          *)
(***************************************************************************)
fixedCount == Len(V.items)

\* a call on a sequence ended, and not with a failure of the length check:
\* it returned, or failed at a position
PassedLengthCheck ==
    /\ pc = "done"
    /\ x.ty \in {"list", "tuple"}
    /\ outcome.ok \/ outcome.msg.m \notin {"Tuple must have at least", "Tuple must have at most"}

\* C26: after any min() and max() calls an input passes the length check of
\* the Tuple only if its length is at least the number of fixed positions and
\* at most that number without a rest validator, or the configured maximum if
\* there is one; the minimum is never below the number of fixed positions,
\* max() without a rest validator raises ValueError and leaves the maximum at
\* that number, and no call ever reports or plans a missing item
C26_TupleLength ==
    /\ V.min_length >= fixedCount
    /\ ~IsValidator(V.rest) => V.max_length = fixedCount
    /\ last.op = "max" /\ ~IsValidator(V.rest) => last.new = 0
    /\ PassedLengthCheck =>
          /\ fixedCount <= Len(x.items)
          /\ ~IsValidator(V.rest) => Len(x.items) <= fixedCount
          /\ IsValidator(V.rest) /\ V.max_length # NoInt => Len(x.items) <= V.max_length
    /\ pc = "done" => outcome.ok \/ outcome.msg.m # "Missing item at position"
    /\ ChildrenReached => \A i \in 1..Len(Planned) : Planned[i].stage # "missing"

\* C26 witness: min(0) on a Tuple with one fixed position left the minimum at
\* one, and the empty tuple was refused for its length
C26_Witness ==
    /\ last.op = "min"
    /\ last.arg = 0
    /\ V.min_length = 1
    /\ pc = "done"
    /\ x = PyTuple(<<>>)
    /\ ~outcome.ok
    /\ outcome.msg.m = "Tuple must have at least"

(***************************************************************************)
(* C27.  The required keys of a Dict or Object.                            *)
(***************************************************************************)
\* the instance was made by a constructor, or by extend or omit on such an
\* instance: no call gave it required keys explicitly
RECURSIVE FromSchemaOnly(_, _)
FromSchemaOnly(h, i) ==
    \/ h.made[i].op = "init"
    \/ /\ h.made[i].op \in {"extend", "omit"}
       /\ FromSchemaOnly(h, h.made[i].self)

\* the Dict validator of a Dict or of an Object
DictOf(h, i) == IF h.objs[i].kind = "Object" THEN Deref(h, i).dict ELSE Deref(h, i)

\* the keys of a schema whose validator is neither optional nor nullable
NeitherOptionalNorNullable(schema) ==
    {schema[k].key : k \in {j \in 1..Len(schema) :
                              ~schema[j].val.optional /\ ~schema[j].val.nullable}}

\* C27: the required keys of every Dict and Object made by the constructor,
\* extend and omit are the keys of its schema whose validator is neither
\* optional nor nullable
C27_RequiredFromSchema ==
    \A i \in Held(heap) :
        heap.objs[i].kind \in {"Dict", "Object"} /\ FromSchemaOnly(heap, i) =>
            DictOf(heap, i).required = NeitherOptionalNorNullable(DictOf(heap, i).schema)

(***************************************************************************)
(* The termination specification.  The event loop runs every coroutine     *)
(* that is ready: the composite's _validate_async when it is not at an     *)
(* await or when what it awaits is done, and the subtasks it created,      *)
(* each of which completes once it is run.                                 *)
(***************************************************************************)
\* the steps of the composite's own coroutine
CompositeStep == CreateTask \/ Proceed \/ ResumeGather \/ ResumeSeq \/ FinishSeq

\* a subtask that is created and not done completes
SubtaskCompletes == \E i \in 1..Len(tasks) : TaskRun(i)

SpecTermination ==
    /\ InitCalls
    /\ [][Next]_vars
    /\ WF_vars(CompositeStep)
    /\ WF_vars(SubtaskCompletes)

(***************************************************************************)
(* C28.  validate_async on a composite ends.                               *)
(***************************************************************************)
\* validate_async on a List, Dict, Tuple or Union is past its checks and has
\* not ended
Underway == mode = "async" /\ pc \in {"create", "gather", "seq"}

\* the call ended: it returned a value or raised one failure
Ended == pc = "done" /\ outcome # NoOutcome

\* C28: when the subtasks a composite created complete, validate_async on the
\* composite ends, with a value or with one failure; it waits for nothing but
\* the subtasks it created
C28_AsyncEnds == Underway ~> Ended

\* C28 witness: validate_async ended after two subtasks were created and
\* completed
C28_Witness ==
    /\ mode = "async"
    /\ Ended
    /\ Len(tasks) = 2
    /\ \A i \in 1..Len(tasks) : tasks[i].done

(***************************************************************************)
(* C29.  The list a List with unique() returns.                            *)
(***************************************************************************)
\* a call on a List configured with unique() returned a list
UniqueListReturned ==
    /\ pc = "done"
    /\ V.kind = "List"
    /\ V.unique
    /\ outcome.ok
    /\ outcome.val.ty = "list"

\* C29: the list that a List with unique() returns has no two equal elements
C29_UniqueOutput == UniqueListReturned => ~HasDuplicate(outcome.val.items)

(***************************************************************************)
(* C30.  The caller's input.                                               *)
(***************************************************************************)
\* C30: from the call on, through every step of validate_async and after the
\* call has returned or raised, the object the caller passed holds what it
\* held when it was passed, at every level
C30_InputUnchanged == pc # "idle" => input = x

\* C30 witness: a call on a list of lists has ended with a value whose inner
\* list differs from that of the input, and the caller's list and its inner
\* list hold what they held
C30_Witness ==
    /\ pc = "done"
    /\ x = PyList(<<PyList(<<S2>>)>>)
    /\ outcome = Ok(PyList(<<PyList(<<S2U>>)>>))
    /\ input = x

====
